---- MODULE Spec2Model ----
(***************************************************************************)
(* Model of the test-generation oracle of the repository:                  *)
(*   src/mswebench_run_evaluation_GenTests.py                              *)
(*     run_instances            the gold phase, then one phase per bad     *)
(*                              patch index, then the final report         *)
(*     run_instance / run_multiswebench_phase                              *)
(*                              one phase: one harness subprocess for all  *)
(*                              instances, its final_report.json           *)
(*     run_with_timeout         the subprocess runner                      *)
(*                                                                         *)
(* Spec        run_instances, with the harness subprocess as environment.  *)
(* FairSpec    Spec with the orchestrator's own steps weakly fair.         *)
(* ResumeSpec  Spec with a crash and a second invocation.                  *)
(* RunnerSpec  run_with_timeout alone, line by line.                       *)
(* FairRunnerSpec  RunnerSpec with the steps of run_with_timeout and the   *)
(*             clock weakly fair.                                          *)
(* ConfigSpec  create_multiswebench_config over its arguments.             *)
(*                                                                         *)
(* The prediction drivers, which append to all_preds.jsonl:                *)
(*   src/baselines/sweagent/sweagent_regular.py, main                      *)
(*   src/baselines/aider/aider_regular.py, main                            *)
(*   src/aider_batch.py                                                    *)
(* DriverSpec  invocations of a driver, one after the other.               *)
(*                                                                         *)
(* The style review of the harness, one thread pool task per instance:     *)
(*   src/multiswebench_local/multi_swe_bench/harness/style_review/         *)
(*     run_java_style_review.py, main and run_style_review                 *)
(* PoolSpec    the tasks of the pool, interleaved.                         *)
(*                                                                         *)
(* The checkout of a repository and the application of a patch:            *)
(*   src/patch_application.py, ensure_repo_cloned and apply_patch          *)
(*   src/baselines/AutoCodeRover/acr_runner.py, clone_repo and apply_patch *)
(* CheckoutSpec  attempts to provision a checkout, then one patch.         *)
(*                                                                         *)
(* The batch runner of AutoCodeRover and the task it runs:                 *)
(*   src/baselines/AutoCodeRover/acr_batch_runner.py, run_batch_processing *)
(*   src/baselines/AutoCodeRover/acr_runner.py, run_single and             *)
(*     run_custom_testgen                                                  *)
(* BatchSpec   the modes, the tasks of a mode, the attempts of a task.     *)
(*                                                                         *)
(* The image of a VM on the cloud:                                         *)
(*   src/gc/utils.py, create_image_wrapped                                 *)
(* GcSpec      one call.                                                   *)
(* ImageSpec   a style review run or a call of create_image_wrapped.       *)
(*                                                                         *)
(* StyleSpec   invocations of run_style_review on one instance directory:  *)
(*             the logs of the two container runs and the report.          *)
(* RaceSpec    two driver processes at the same time on one output         *)
(*             directory.                                                  *)
(* SubmitSpec  the batch submitter and the cluster queue it polls.         *)
(*                                                                         *)
(* The instance id of a dataset item:                                      *)
(*   src/converter.py and load_mswebench_dataset compose it,               *)
(*   create_multiswebench_config splits it.                                *)
(* IdSpec      an item, its id, the line of the patch file.                *)
(*                                                                         *)
(* The validation of a bad patch:                                          *)
(*   src/bad_patch_validation.py                                           *)
(* ValidationSpec  runs of the script, one after the other.                *)
(***************************************************************************)
EXTENDS Integers, Sequences, FiniteSets, TLC

(***************************************************************************)
(* Bounds.                                                                 *)
(***************************************************************************)
\* most bad patches an instance of the dataset carries
MaxBad == 2
\* most lines a child process writes (both streams together)
MaxLines == 2
\* the positive timeout_seconds run_with_timeout is called with, in ticks of the clock
Deadline == 2
\* ticks of the clock a child process is followed for beyond its deadline
MaxOver == 1
\* largest --max_workers
MaxWorkers == 8
\* instances of the dataset a prediction driver is given
NumTasks == 3
\* invocations of a prediction driver over one output directory
MaxInvocations == 2
\* most instances of a style review run
PoolTasks == 2
\* attempts to provision one checkout
MaxAttempts == 2

\* largest max_retries of the batch runner
MaxRetries == 3
\* tasks of a batch
BatchTasks == 2

\* invocations of run_style_review on one instance directory
MaxReviews == 2

\* the instances the batch submitter has to submit
NumInstances == 21
\* the jobs in the cluster queue that are not the submitter's
MaxOthers == 1

\* most characters of the name of an organisation or of a repository
MaxName == 3

\* most records of the bad-patch file
MaxRecords == 2
\* most bad patches an instance of mswebench_instances.json carries
MaxListed == 1

\* the instances of the run (instance ids)
Inst == {"X", "Y"}

\* Python's None, and a value that is not None
None == <<>>
Some(v) == <<v>>

\* the default of --timeout (seconds)
DefaultTimeout == 1800

VARIABLES
    (* ---- run_instances ---- *)
    bad_patches,      \* instance id -> number of bad patches of the instance
    timeout,          \* the --timeout argument
    script_exists,    \* os.path.exists(script_path) in run_multiswebench_phase
    pc,               \* position in run_instances
    bad_patch_index,  \* phase: -1 is the gold phase, i >= 0 the phase of bad patch i
    patch_file,       \* instances with a line in the phase's patch file
    harness,          \* harness subprocess: instance id -> outcome so far
    final_report,     \* final_report.json in the output dir of the phase in progress
    success_dict,     \* the four id lists run_instances accumulates
    report,           \* the report.json run_instances writes (None before)
    truth,            \* history: phase -> instance -> outcome the harness reported
    running,          \* phases whose harness subprocess is alive
    started,          \* history: the phases, in the order run_instance was called
    terminated,       \* history: the phases whose run_instance returned
    recorded,         \* None, or in a re-invocation the phases recorded before the crash
    (* ---- run_with_timeout ---- *)
    rpc,              \* position in run_with_timeout
    timeout_seconds,  \* its argument
    child,            \* "none" | "running" | "exited" | "killed"
    descendants,      \* processes the child spawned that are alive
    returncode,       \* process.returncode
    elapsed,          \* time.time() - start_time, in ticks of the clock
    pipe_out,         \* lines written to stdout, not yet read
    pipe_err,         \* lines written to stderr, not yet read
    stdout_lines,     \* lines read from stdout
    stderr_lines,     \* lines read from stderr
    ret,              \* the returned (stdout, stderr, returncode), None before
    infra_seen,       \* history: values returned when the command could not start
    (* ---- create_multiswebench_config ---- *)
    max_workers,      \* the --max_workers argument
    force_rebuild,    \* the --force_rebuild argument
    use_apptainer,    \* the --use_apptainer argument
    phase,            \* the phase argument
    config,           \* the config written to the config file (None before)
    predictions,      \* the predictions argument: instance -> its bad_patches entries
    index_arg,        \* the bad_patch_index argument
    patch_lines,      \* the lines written to the patch file
    raised,           \* create_multiswebench_config raised KeyError
    (* ---- prediction drivers ---- *)
    all_preds,        \* the records of all_preds.jsonl, in the order of the file
    driver,           \* the driver of the invocation: "sweagent" | "aider"
    dpc,              \* "stopped" | "loop"
    existing_ids,     \* the ids read from all_preds.jsonl at the start of the invocation
    todo,             \* the instances of the dataset the loop has not come to
    invocations,      \* history: number of invocations so far
    crashed,          \* history: an invocation ended before the end of its loop
    ran_recorded,     \* history: the instances run while they had a record
    ever_written,     \* history: the ids of the records ever written
    errors,           \* history: the instances whose run ended in an error
    (* ---- style review ---- *)
    instances,        \* the instances created from the dataset, one task each
    task,             \* instance -> position of its run_style_review task
    images,           \* the names of the images docker has
    repo_dirs,        \* the repo directories that exist
    (* ---- checkout and patch ---- *)
    impl,             \* the module: "patch_application" | "acr_runner"
    patch,            \* how the patch fits the base commit: "clean" | "fuzzy" | "conflict"
    cpc,              \* position in the provisioning function and in apply_patch
    repo,             \* the repo directory: "absent" | "default" (HEAD of the clone) | "base"
    attempts,         \* history: calls of the provisioning function so far
    outcome,          \* the last call: "none" | "returned" | "raised"
    tmp_patch,        \* the temporary patch file exists
    applied,          \* history: the git apply / patch commands run, with their success
    apply_result,     \* apply_patch: "none" | "ok" | "error"
    (* ---- AutoCodeRover batch runner ---- *)
    max_retries,      \* the max_retries argument of run_batch_processing
    modes,            \* the modes argument, a list
    bpc,              \* "attempt" | "run_single" | "custom" | "sleep" | "record" | "finished"
    mode_idx,         \* position in modes of the mode in progress
    task_idx,         \* position in the tasks of the task in progress
    attempt,          \* the loop variable of for attempt in range(max_retries)
    tmp_dirs,         \* the directories that exist under the two acr_tmp roots
    work,             \* run_single: the directory mkdtemp made (None outside)
    results,          \* the result records of the mode in progress
    saved,            \* mode -> the records save_intermediate_results wrote at its end
    calls,            \* history: calls of run_single for the (task, mode) in progress
    success,          \* the variable success of the loop over the tasks
    late_call,        \* history: run_single was called after a call that returned a result
    waits,            \* history: the time.sleep arguments for the (task, mode) in progress
    dir_users,        \* history: <<directory, task>> for every directory a task made
    progress,         \* the progress dict of the batch (batch_progress.json)
    (* ---- create_image_wrapped ---- *)
    rebuild,          \* the rebuild argument
    gc_image,         \* the image of the name: "absent" | "old" | "new" (made by the call)
    image_exists,     \* what check_image_exists returned
    gpc,              \* "check" | "delete" | "create" | "returned" | "raised"
    gc_ops,           \* history: the delete and insert requests of the call
    (* ---- the output directories on the disk ---- *)
    stale,            \* phase -> the final_report.json an earlier invocation left (or None)
    (* ---- run_style_review, the run of the review ---- *)
    run_no,           \* history: the number of the invocation of run_style_review
    spc,              \* "extract" | "original" | "patched" | "load" | "returned"
    orig_log,         \* original_run.log: None, or the run that wrote it and what it holds
    patched_log,      \* patched_run.log, likewise
    original_report,  \* original_style_report.json: None, or the run whose log it is from
    patched_report,   \* patched_style_report.json, likewise
    style_report,     \* the value returned: None, or the runs its two scores are from
    (* ---- two prediction drivers at the same time ---- *)
    proc_ids,         \* process -> its instance_ids argument
    proc_pc,          \* process -> "start" | "loop" | "stopped"
    proc_existing,    \* process -> the ids it read from all_preds.jsonl at its start
    proc_todo,        \* process -> the instances its loop has not come to
    preds_file,       \* the records of the all_preds.jsonl the processes share
    (* ---- the batch submitter (aider_batch) ---- *)
    sub_pc,           \* "poll" | "sleep" | "submit" | "drain" | "drain_sleep" | "done"
    sub_todo,         \* the instances the loop has not come to
    own_jobs,         \* the jobs of this script in the cluster queue
    other_jobs,       \* the other jobs that squeue lists
    (* ---- an instance id, composed and split ---- *)
    item,             \* the dataset item: its org, its repo and str() of its number
    instance,         \* the instance id composed for the item, or None
    patch_data,       \* org, repo and number of the line of the patch file, or None
    (* ---- bad_patch_validation ---- *)
    val_args,         \* the arguments and the files the last run of the script found
    exit_status,      \* the exit status of the last run of the script
    bad_patch_file,   \* the records of the bad-patch file (--dataset_name)
    dataset_bad       \* mswebench_instances.json: instance -> length of its bad_patches

orch_vars == <<bad_patches, timeout, script_exists, pc, bad_patch_index, patch_file,
               harness, final_report, success_dict, report, truth, running, started,
               terminated, recorded>>
run_vars  == <<rpc, timeout_seconds, child, descendants, returncode, elapsed,
               pipe_out, pipe_err, stdout_lines, stderr_lines, ret, infra_seen>>
\* run_vars but ret
run_rest  == <<rpc, timeout_seconds, child, descendants, returncode, elapsed,
               pipe_out, pipe_err, stdout_lines, stderr_lines, infra_seen>>
cfg_vars  == <<max_workers, force_rebuild, use_apptainer, phase, config, predictions,
               index_arg, patch_lines, raised>>
drv_vars  == <<all_preds, driver, dpc, existing_ids, todo, invocations, crashed,
               ran_recorded, ever_written, errors>>
pool_vars == <<instances, task, images, repo_dirs>>
co_vars   == <<impl, patch, cpc, repo, attempts, outcome, tmp_patch, applied, apply_result>>
batch_vars == <<max_retries, modes, bpc, mode_idx, task_idx, attempt,
                tmp_dirs, work, results, saved, calls, success, late_call,
                waits, dir_users, progress>>
gc_vars == <<rebuild, gc_image, image_exists, gpc, gc_ops>>
disk_vars == <<stale>>
style_vars == <<run_no, spc, orig_log, patched_log, original_report,
                patched_report, style_report>>
race_vars == <<proc_ids, proc_pc, proc_existing, proc_todo, preds_file>>
sub_vars == <<sub_pc, sub_todo, own_jobs, other_jobs>>
id_vars == <<item, instance, patch_data>>
val_vars == <<val_args, exit_status, bad_patch_file, dataset_bad>>
vars == <<orch_vars, run_vars, cfg_vars, drv_vars, pool_vars, co_vars, batch_vars, gc_vars, disk_vars, style_vars, race_vars, sub_vars, id_vars, val_vars>>

\* the variables of the other specifications, left alone by run_instances and
\* run_with_timeout
aux_vars == <<cfg_vars, drv_vars, pool_vars, co_vars, batch_vars, gc_vars, disk_vars, style_vars, race_vars, sub_vars, id_vars, val_vars>>
\* aux_vars but the output directories
aux_rest == <<cfg_vars, drv_vars, pool_vars, co_vars, batch_vars, gc_vars, style_vars, race_vars, sub_vars, id_vars, val_vars>>
\* the variables create_multiswebench_config leaves alone
cfg_frame == <<orch_vars, run_vars, drv_vars, pool_vars, co_vars, batch_vars, gc_vars, disk_vars, style_vars, race_vars, sub_vars, id_vars, val_vars>>
\* the variables the prediction drivers leave alone
drv_frame == <<orch_vars, run_vars, cfg_vars, pool_vars, co_vars, batch_vars, gc_vars, disk_vars, style_vars, race_vars, sub_vars, id_vars, val_vars>>
\* the variables the style review leaves alone
pool_frame == <<orch_vars, run_vars, cfg_vars, drv_vars, co_vars, batch_vars, gc_vars, disk_vars, style_vars, race_vars, sub_vars, id_vars, val_vars>>
\* the variables the checkout and the patch application leave alone
co_frame == <<orch_vars, run_vars, cfg_vars, drv_vars, pool_vars, batch_vars, gc_vars, disk_vars, style_vars, race_vars, sub_vars, id_vars, val_vars>>
\* the variables the batch runner of AutoCodeRover leaves alone
batch_frame == <<orch_vars, run_vars, cfg_vars, drv_vars, pool_vars, co_vars, gc_vars, disk_vars, style_vars, race_vars, sub_vars, id_vars, val_vars>>
\* the variables create_image_wrapped leaves alone
gc_frame == <<orch_vars, run_vars, cfg_vars, drv_vars, pool_vars, co_vars, batch_vars, disk_vars, style_vars, race_vars, sub_vars, id_vars, val_vars>>
\* the variables of the other programs, next to the output directories
disk_frame == <<orch_vars, run_vars, cfg_vars, drv_vars, pool_vars, co_vars, batch_vars, gc_vars, style_vars, race_vars, sub_vars, id_vars, val_vars>>
\* the variables the run of a style review leaves alone
style_frame == <<orch_vars, run_vars, cfg_vars, drv_vars, pool_vars, co_vars, batch_vars, gc_vars, disk_vars, race_vars, sub_vars, id_vars, val_vars>>
\* the variables two driver processes at the same time leave alone
race_frame == <<orch_vars, run_vars, cfg_vars, drv_vars, pool_vars, co_vars, batch_vars, gc_vars, disk_vars, style_vars, sub_vars, id_vars, val_vars>>
\* the variables the batch submitter leaves alone
sub_frame == <<orch_vars, run_vars, cfg_vars, drv_vars, pool_vars, co_vars, batch_vars, gc_vars, disk_vars, style_vars, race_vars, id_vars, val_vars>>
\* the variables the instance id leaves alone
id_frame == <<orch_vars, run_vars, cfg_vars, drv_vars, pool_vars, co_vars, batch_vars, gc_vars, disk_vars, style_vars, race_vars, sub_vars, val_vars>>
\* the variables the validation of a bad patch leaves alone
val_frame == <<orch_vars, run_vars, cfg_vars, drv_vars, pool_vars, co_vars, batch_vars, gc_vars, disk_vars, style_vars, race_vars, sub_vars, id_vars>>

(***************************************************************************)
(* Values.                                                                 *)
(***************************************************************************)
\* what the harness can come to for one instance of a phase: listed in resolved_ids,
\* in unresolved_ids, in unresolved_ids and error_ids, in error_ids alone (or nowhere)
Outcome == {"resolved", "unresolved", "unresolved_error", "error"}

\* exit codes of a child process
ExitCodes == {0, 1}

\* str(e) of the exceptions subprocess.Popen raises
PopenErrors == {"No such file", "Permission denied\n"}

\* the lines a child process writes
Lines == {"a\n", "Permission denied\n"}

\* the phases: -1 is the gold phase (bad_patch_index = -1), i >= 0 that of bad patch i
Phases == -1 .. (MaxBad - 1)

RECURSIVE SetMax(_)
SetMax(S) == IF S = {} THEN 0
             ELSE LET x == CHOOSE x \in S : TRUE
                      m == SetMax(S \ {x})
                  IN  IF x > m THEN x ELSE m

\* "".join(lines)
RECURSIVE Join(_)
Join(lines) == IF lines = <<>> THEN "" ELSE Head(lines) \o Join(Tail(lines))

\* dict.get(key, default)
Get(d, key, default) == IF key \in DOMAIN d THEN d[key] ELSE default

\* d[key] = value
Put(d, key, value) == [k \in DOMAIN d \cup {key} |-> IF k = key THEN value ELSE d[k]]

(***************************************************************************)
(* run_with_timeout: the three values it returns.                          *)
(***************************************************************************)
\* return None, "Timeout exceeded", 1
TimeoutReturn == <<None, "Timeout exceeded", 1>>

\* mutant: the except clause returns an empty stdout instead of None
ExceptionReturn_EmptyStdout(e) == <<Some(""), e, 1>>

\* except Exception as e: return None, str(e), 1
ExceptionReturn(e) == <<None, e, 1>>

\* mutant: the lines of stderr read after the loop are not returned
ExitReturn_NoStderr(out_lines, err_lines, rc) == <<Some(Join(out_lines)), "", rc>>

\* return stdout, stderr, process.returncode
ExitReturn(out_lines, err_lines, rc) == <<Some(Join(out_lines)), Join(err_lines), rc>>

(***************************************************************************)
(* run_multiswebench_phase, run_instance.                                  *)
(***************************************************************************)
\* the report of a phase from what run_with_timeout returned and the final_report.json
\* of the output dir: None on a non-zero return code, else the file if it exists
PhaseResult(r, file) == IF r[3] # 0 THEN None ELSE file

\* run_instance: the report if it is truthy, else None
run_instance(r, file) == PhaseResult(r, file)

\* the final_report.json the harness writes from its outcomes
HarnessReport(h) ==
    [resolved_ids   |-> {x \in Inst : h[x] = "resolved"},
     unresolved_ids |-> {x \in Inst : h[x] \in {"unresolved", "unresolved_error"}},
     error_ids      |-> {x \in Inst : h[x] \in {"unresolved_error", "error"}}]

(***************************************************************************)
(* run_instances.                                                          *)
(***************************************************************************)
\* max([len(instance.get("bad_patches", [])) for ...])
max_bad_patches == SetMax({bad_patches[x] : x \in Inst})

\* mutant: every instance gets a line in the patch file of every phase
PatchFile_All(i) == Inst

\* create_multiswebench_config: the instances that get a line in the patch file
PatchFile(i) == IF i # -1 THEN {x \in Inst : i < bad_patches[x]} ELSE Inst

\* f"bad_patch_{i}_of_{id}"
BadId(i, id) == "bad_patch_" \o ToString(i) \o "_of_" \o id

\* success_dict after the gold phase returned rep
GoldUpdate(d, rep) ==
    IF rep = None THEN d
    ELSE Put(Put(d, "gold_successes", rep[1].resolved_ids),
             "gold_failures", rep[1].unresolved_ids)

\* success_dict after the phase of bad patch i returned rep
BadUpdate(d, i, rep) ==
    IF rep = None THEN d
    ELSE LET existing_success  == Get(d, "bad_patch_successes", {})
             existing_failures == Get(d, "bad_patch_failures", {})
             resolved_ids   == {BadId(i, id) : id \in rep[1].resolved_ids}
             error_ids      == rep[1].error_ids
             unresolved_ids == {BadId(i, id) : id \in rep[1].unresolved_ids \ error_ids}
         IN  Put(Put(d, "bad_patch_successes", existing_success \cup unresolved_ids),
                 "bad_patch_failures", existing_failures \cup resolved_ids)

\* mutant: the gold lists are written under each other's key
FinalReport_GoldSwapped(d) ==
    [bad_patches_results |->
        [EXPECTED_FAIL |-> [success |-> Get(d, "bad_patch_failures", {}),
                            failure |-> Get(d, "bad_patch_successes", {})]],
     gold_tests_status |->
        [EXPECTED_PASS |-> [success |-> Get(d, "gold_failures", {}),
                            failure |-> Get(d, "gold_successes", {})]]]

\* the report run_instances writes to report.json
FinalReport(d) ==
    [bad_patches_results |->
        [EXPECTED_FAIL |-> [success |-> Get(d, "bad_patch_failures", {}),
                            failure |-> Get(d, "bad_patch_successes", {})]],
     gold_tests_status |->
        [EXPECTED_PASS |-> [success |-> Get(d, "gold_successes", {}),
                            failure |-> Get(d, "gold_failures", {})]]]

NoTruth == [p \in Phases |-> [x \in Inst |-> "none"]]
Pending == [x \in Inst |-> "pending"]

ConfigIdle ==
    /\ max_workers = 0 /\ force_rebuild = FALSE /\ use_apptainer = FALSE
    /\ phase = "all" /\ config = None
    /\ predictions = <<>> /\ index_arg = -1 /\ patch_lines = <<>> /\ raised = FALSE

DriverIdle ==
    /\ all_preds = <<>> /\ driver = "sweagent" /\ dpc = "stopped" /\ existing_ids = {}
    /\ todo = <<>> /\ invocations = 0 /\ crashed = FALSE /\ ran_recorded = {}
    /\ ever_written = {} /\ errors = {}

PoolIdle == instances = {} /\ task = <<>> /\ images = {} /\ repo_dirs = {}

CheckoutIdle ==
    /\ impl = "patch_application" /\ patch = "clean" /\ cpc = "idle" /\ repo = "absent"
    /\ attempts = 0
    /\ outcome = "none" /\ tmp_patch = FALSE /\ applied = <<>>
    /\ apply_result = "none"

BatchIdle ==
    /\ max_retries = 0 /\ modes = <<>> /\ bpc = "finished" /\ mode_idx = 0
    /\ task_idx = 0
    /\ attempt = 0 /\ tmp_dirs = {} /\ work = None /\ results = <<>> /\ saved = <<>>
    /\ calls = 0 /\ success = FALSE /\ late_call = FALSE /\ waits = <<>> /\ dir_users = {}
    /\ progress = <<>>

GcIdle ==
    /\ rebuild = FALSE /\ gc_image = "absent" /\ image_exists = FALSE /\ gpc = "returned"
    /\ gc_ops = <<>>

DiskIdle ==
    stale = [p \in Phases |-> None]

StyleIdle ==
    /\ run_no = 0 /\ spc = "returned" /\ orig_log = None /\ patched_log = None
    /\ original_report = None /\ patched_report = None /\ style_report = None

RaceIdle ==
    /\ proc_ids = <<>> /\ proc_pc = <<>> /\ proc_existing = <<>> /\ proc_todo = <<>>
    /\ preds_file = <<>>

SubmitIdle ==
    /\ sub_pc = "done" /\ sub_todo = 0 /\ own_jobs = 0 /\ other_jobs = 0

IdIdle ==
    /\ item = <<>> /\ instance = <<>> /\ patch_data = <<>>

ValidationIdle ==
    /\ val_args = <<>> /\ exit_status = 0 /\ bad_patch_file = <<>> /\ dataset_bad = <<>>

AuxIdle == ConfigIdle /\ DriverIdle /\ PoolIdle /\ CheckoutIdle /\ BatchIdle /\ GcIdle /\ DiskIdle /\ StyleIdle /\ RaceIdle /\ SubmitIdle /\ IdIdle /\ ValidationIdle

RunnerIdle ==
    /\ rpc = "idle" /\ timeout_seconds = 0 /\ child = "none" /\ descendants = {}
    /\ returncode = 0 /\ elapsed = 0 /\ pipe_out = <<>> /\ pipe_err = <<>>
    /\ stdout_lines = <<>> /\ stderr_lines = <<>> /\ ret = None /\ infra_seen = {}

Init ==
    /\ bad_patches \in [Inst -> 0 .. MaxBad]
    /\ bad_patches["X"] >= bad_patches["Y"]   \* the instances are interchangeable
    /\ timeout = DefaultTimeout   \* positive; with --timeout 0 HarnessTimeout never fires
    /\ script_exists \in BOOLEAN
    /\ pc = "prepare"
    /\ bad_patch_index = -1
    /\ patch_file = {}
    /\ harness = Pending
    /\ final_report = None
    /\ success_dict = <<>>
    /\ report = None
    /\ truth = NoTruth
    /\ running = {}
    /\ started = <<>>
    /\ terminated = {}
    /\ recorded = None
    /\ RunnerIdle
    /\ AuxIdle

\* clean_directories, load_mswebench_dataset, create_multiswebench_config of a phase
Prepare(ok) ==
    /\ pc = "prepare"
    /\ ~ok => stale[bad_patch_index] # None
    /\ final_report' = IF ok THEN None ELSE stale[bad_patch_index]
    /\ patch_file' = PatchFile(bad_patch_index)
    /\ started' = Append(started, bad_patch_index)
    /\ ret' = None
    /\ pc' = "run"
    /\ UNCHANGED <<bad_patches, timeout, script_exists, bad_patch_index, harness,
                   success_dict, report, truth, running, terminated, recorded, run_rest, aux_vars>>

\* mutant: the loop over the bad patch indices steps by two
NextPhase_Skip(i) == i + 2

\* for i in range(max_bad_patches): the phase after phase i (the gold phase is -1)
NextPhase(i) == i + 1

\* mutant: the report is written after the gold phase
HasNextPhase_Never(i) == FALSE

\* the loop over the bad patch indices has a phase after phase i
HasNextPhase(i) == NextPhase(i) < max_bad_patches

\* the rest of a phase of run_instances once run_with_timeout returned r (None if it
\* was not called) and run_instance returned rep: the update of success_dict, then the
\* next phase or, after the last one, the final report
Record(r, rep) ==
    /\ success_dict' = IF bad_patch_index = -1
                       THEN GoldUpdate(success_dict, rep)
                       ELSE BadUpdate(success_dict, bad_patch_index, rep)
    /\ truth' = IF rep = None THEN truth
                ELSE [truth EXCEPT ![bad_patch_index] = harness]
    /\ IF HasNextPhase(bad_patch_index)
       THEN /\ bad_patch_index' = NextPhase(bad_patch_index)
            /\ pc' = "prepare"
            /\ report' = report
       ELSE /\ bad_patch_index' = bad_patch_index
            /\ pc' = "done"
            /\ report' = Some(FinalReport(success_dict'))
    /\ harness' = Pending
    /\ final_report' = None
    /\ ret' = r
    /\ running' = running \ {bad_patch_index}
    /\ terminated' = terminated \cup {bad_patch_index}
    /\ UNCHANGED <<bad_patches, timeout, script_exists, patch_file, started, recorded,
                   run_rest, aux_vars>>

\* run_multiswebench_phase finds no harness script: no subprocess, no report
ScriptMissing ==
    /\ pc = "run"
    /\ ~script_exists
    /\ Record(None, None)

\* subprocess.Popen raises: run_with_timeout returns from its except clause
StartFails ==
    /\ pc = "run"
    /\ script_exists
    /\ \E e \in PopenErrors :
          Record(ExceptionReturn(e), run_instance(ExceptionReturn(e), final_report))

\* the harness subprocess starts
HarnessStart ==
    /\ pc = "run"
    /\ script_exists
    /\ pc' = "child"
    /\ running' = running \cup {bad_patch_index}
    /\ UNCHANGED <<bad_patches, timeout, script_exists, bad_patch_index, patch_file,
                   harness, final_report, success_dict, report, truth, started,
                   terminated, recorded, run_vars, aux_vars>>

\* the instances the harness evaluates: those of the dataset file with a line in the
\* patch file
Evaluated(pf) == pf

\* the harness finishes the evaluation of one instance
HarnessEvaluate(x) ==
    /\ pc = "child"
    /\ x \in Evaluated(patch_file)
    /\ harness[x] = "pending"
    /\ \E o \in Outcome : harness' = [harness EXCEPT ![x] = o]
    /\ UNCHANGED <<bad_patches, timeout, script_exists, pc, bad_patch_index, patch_file,
                   final_report, success_dict, report, truth, running, started,
                   terminated, recorded, run_vars, aux_vars>>

\* the harness writes characters with no newline after them (a progress bar) and then
\* nothing: select reports the stream readable and stream.readline() does not return;
\* the test of the deadline at the head of the loop is not reached again. The harness
\* modelled does so at its start, before it has evaluated an instance.
HarnessBlocks ==
    /\ pc = "child"
    /\ harness = Pending
    /\ pc' = "blocked"
    /\ UNCHANGED <<bad_patches, timeout, script_exists, bad_patch_index, patch_file,
                   harness, final_report, success_dict, report, truth, running, started,
                   terminated, recorded, run_vars, aux_vars>>

\* the harness subprocess exits with code rc, having written its final_report.json
\* (once every instance is evaluated) or not; at the end of the stream a readline that
\* was waiting returns
HarnessExit(rc, wrote) ==
    /\ pc \in {"child", "blocked"}
    /\ wrote => \A x \in Evaluated(patch_file) : harness[x] # "pending"
    /\ LET file == IF wrote THEN Some(HarnessReport(harness)) ELSE final_report
           r    == ExitReturn(<<>>, <<>>, rc)
       IN  Record(r, run_instance(r, file))

\* the deadline passes with the harness subprocess still running: it is killed
HarnessTimeout ==
    /\ pc = "child"
    /\ timeout > 0
    /\ Record(TimeoutReturn, run_instance(TimeoutReturn, final_report))

Next ==
    \/ \E ok \in BOOLEAN : Prepare(ok)
    \/ ScriptMissing
    \/ StartFails
    \/ HarnessStart
    \/ \E x \in Inst : HarnessEvaluate(x)
    \/ HarnessBlocks
    \/ \E rc \in ExitCodes, wrote \in BOOLEAN : HarnessExit(rc, wrote)
    \/ HarnessTimeout

Spec == Init /\ [][Next]_vars

\* the steps of run_instances and run_with_timeout themselves: the interpreter goes on
\* whenever it can; the steps of the harness subprocess are not among them
Progress == (\E ok \in BOOLEAN : Prepare(ok)) \/ ScriptMissing \/ StartFails \/ HarnessStart \/ HarnessTimeout

\* run_instances under a scheduler that lets the orchestrator run
FairSpec == Init /\ [][Next]_vars /\ WF_vars(Progress)

(***************************************************************************)
(* A run that crashes and is invoked again with the same run id.           *)
(***************************************************************************)
\* most bad patches an instance carries in the runs that are invoked twice
ResumeMaxBad == 1

\* the phases whose report the run has read and recorded in success_dict
RecordedPhases == {p \in Phases : truth[p] # NoTruth[p]}

\* the process dies between two phases and main is run again with the same arguments:
\* run_instances starts from an empty success_dict at the gold phase, and
\* clean_directories removes the output directory of each phase before it is run
Reinvoke ==
    /\ recorded = None
    /\ pc = "prepare"
    /\ recorded' = Some(RecordedPhases)
    /\ success_dict' = <<>>
    /\ bad_patch_index' = -1
    /\ harness' = Pending
    /\ final_report' = None
    /\ truth' = NoTruth
    /\ running' = {}
    /\ started' = <<>>
    /\ terminated' = {}
    /\ ret' = None
    /\ stale' = [p \in Phases |-> IF p \in RecordedPhases
                                  THEN Some(HarnessReport(truth[p])) ELSE None]
    /\ UNCHANGED <<bad_patches, timeout, script_exists, pc, patch_file, report, run_rest,
                   aux_rest>>

ResumeInit == Init /\ \A x \in Inst : bad_patches[x] <= ResumeMaxBad

ResumeNext == Next \/ Reinvoke

ResumeSpec == ResumeInit /\ [][ResumeNext]_vars

(***************************************************************************)
(* run_with_timeout, step by step.                                         *)
(***************************************************************************)
\* the processes a child may spawn
Descendants == {"d1"}

\* characters the child wrote to its stdout with no newline after them
Partial == "a"

\* lines the child has written so far
Written == Len(pipe_out) + Len(pipe_err) + Len(stdout_lines) + Len(stderr_lines)

OrchIdle ==
    /\ bad_patches = [x \in Inst |-> 0]
    /\ timeout = DefaultTimeout
    /\ script_exists = TRUE
    /\ pc = "idle"
    /\ bad_patch_index = -1
    /\ patch_file = {}
    /\ harness = Pending
    /\ final_report = None
    /\ success_dict = <<>>
    /\ report = None
    /\ truth = NoTruth
    /\ running = {}
    /\ started = <<>>
    /\ terminated = {}
    /\ recorded = None

RunnerInit ==
    /\ OrchIdle
    /\ AuxIdle
    /\ rpc = "popen"
    /\ timeout_seconds \in {0, Deadline}
    /\ child = "none"
    /\ descendants = {}
    /\ returncode = 0
    /\ elapsed = 0
    /\ pipe_out = <<>>
    /\ pipe_err = <<>>
    /\ stdout_lines = <<>>
    /\ stderr_lines = <<>>
    /\ ret = None
    /\ infra_seen = {}

\* subprocess.Popen raises: the except clause returns
PopenRaises ==
    /\ rpc = "popen"
    /\ \E e \in PopenErrors : ret' = ExceptionReturn(e)
    /\ rpc' = "returned"
    /\ UNCHANGED <<timeout_seconds, child, descendants, returncode, elapsed, pipe_out,
                   pipe_err, stdout_lines, stderr_lines, infra_seen, orch_vars, aux_vars>>

\* subprocess.Popen starts the child; start_time = time.time()
PopenStarts ==
    /\ rpc = "popen"
    /\ child' = "running"
    /\ descendants' \in SUBSET Descendants
    /\ elapsed' = 0
    /\ rpc' = "loop"
    /\ UNCHANGED <<timeout_seconds, returncode, pipe_out, pipe_err, stdout_lines,
                   stderr_lines, ret, infra_seen, orch_vars, aux_vars>>

\* the child writes a line to its stdout
ChildWritesOut ==
    /\ child = "running"
    /\ Written < MaxLines
    /\ \E l \in Lines : pipe_out' = Append(pipe_out, l)
    /\ UNCHANGED <<rpc, timeout_seconds, child, descendants, returncode, elapsed,
                   pipe_err, stdout_lines, stderr_lines, ret, infra_seen, orch_vars, aux_vars>>

\* the child writes a line to its stderr
ChildWritesErr ==
    /\ child = "running"
    /\ Written < MaxLines
    /\ \E l \in Lines : pipe_err' = Append(pipe_err, l)
    /\ UNCHANGED <<rpc, timeout_seconds, child, descendants, returncode, elapsed,
                   pipe_out, stdout_lines, stderr_lines, ret, infra_seen, orch_vars, aux_vars>>

\* the last thing written to a pipe is a line with no newline yet
Unfinished(pipe) == pipe # <<>> /\ pipe[Len(pipe)] = Partial

\* the child writes characters to its stdout and no newline
ChildWritesPartial ==
    /\ child = "running"
    /\ Written < MaxLines
    /\ ~Unfinished(pipe_out)
    /\ pipe_out' = Append(pipe_out, Partial)
    /\ UNCHANGED <<rpc, timeout_seconds, child, descendants, returncode, elapsed,
                   pipe_err, stdout_lines, stderr_lines, ret, infra_seen, orch_vars, aux_vars>>

\* the child writes the newline of the line it had begun
ChildCompletesLine ==
    /\ child = "running"
    /\ Unfinished(pipe_out)
    /\ pipe_out' = [pipe_out EXCEPT ![Len(pipe_out)] = Partial \o "\n"]
    /\ UNCHANGED <<rpc, timeout_seconds, child, descendants, returncode, elapsed,
                   pipe_err, stdout_lines, stderr_lines, ret, infra_seen, orch_vars, aux_vars>>

\* a process the child spawned exits and closes its copies of the pipes
DescendantExits ==
    /\ \E d \in descendants : descendants' = descendants \ {d}
    /\ UNCHANGED <<rpc, timeout_seconds, child, returncode, elapsed, pipe_out, pipe_err,
                   stdout_lines, stderr_lines, ret, infra_seen, orch_vars, aux_vars>>

\* the write ends of the pipes are all closed: the reader comes to the end of a stream
EndOfStream == child # "running" /\ descendants = {}

\* the child exits by itself
ChildExits ==
    /\ child = "running"
    /\ child' = "exited"
    /\ \E rc \in ExitCodes : returncode' = rc
    /\ UNCHANGED <<rpc, timeout_seconds, descendants, elapsed, pipe_out, pipe_err,
                   stdout_lines, stderr_lines, ret, infra_seen, orch_vars, aux_vars>>

\* the clock advances while run_with_timeout is in its loop
Tick ==
    /\ rpc = "loop"
    /\ elapsed < timeout_seconds + MaxOver
    /\ elapsed' = elapsed + 1
    /\ UNCHANGED <<rpc, timeout_seconds, child, descendants, returncode, pipe_out,
                   pipe_err, stdout_lines, stderr_lines, ret, infra_seen, orch_vars, aux_vars>>

\* process.kill(): SIGKILL to the child alone
Kill == /\ child' = "killed"
        /\ UNCHANGED <<descendants, returncode>>

\* if timeout_seconds > 0 and time.time() - start_time > timeout_seconds
TimedOut == timeout_seconds > 0 /\ elapsed > timeout_seconds

\* an iteration of `while process.poll() is None` that finds the deadline passed
LoopTimeout ==
    /\ rpc = "loop"
    /\ child = "running"
    /\ TimedOut
    /\ Kill
    /\ ret' = TimeoutReturn
    /\ rpc' = "returned"
    /\ UNCHANGED <<timeout_seconds, elapsed, pipe_out, pipe_err, stdout_lines,
                   stderr_lines, infra_seen, orch_vars, aux_vars>>

\* an iteration of the loop before the deadline: select, then one readline of each
\* readable stream (from "readline": the readline that waited returns, and the
\* iteration goes on)
LoopRead ==
    /\ rpc \in {"loop", "readline"}
    /\ rpc = "loop" => child = "running" /\ ~TimedOut
    /\ rpc = "readline" => Head(pipe_out) # Partial \/ EndOfStream
    /\ pipe_out # <<>> \/ pipe_err # <<>>
    /\ pipe_out # <<>> /\ Head(pipe_out) = Partial => rpc = "readline"
    /\ IF pipe_out # <<>>
       THEN /\ stdout_lines' = Append(stdout_lines, Head(pipe_out))
            /\ pipe_out' = Tail(pipe_out)
       ELSE UNCHANGED <<stdout_lines, pipe_out>>
    /\ IF pipe_err # <<>>
       THEN /\ stderr_lines' = Append(stderr_lines, Head(pipe_err))
            /\ pipe_err' = Tail(pipe_err)
       ELSE UNCHANGED <<stderr_lines, pipe_err>>
    /\ rpc' = "loop"
    /\ UNCHANGED <<timeout_seconds, child, descendants, returncode, elapsed, ret,
                   infra_seen, orch_vars, aux_vars>>

\* an iteration of the loop whose stdout.readline() finds characters and no newline:
\* it returns at the newline or at the end of the stream
ReadlineWaits ==
    /\ rpc = "loop"
    /\ child = "running"
    /\ ~TimedOut
    /\ pipe_out # <<>>
    /\ Head(pipe_out) = Partial
    /\ rpc' = "readline"
    /\ UNCHANGED <<timeout_seconds, child, descendants, returncode, elapsed, pipe_out,
                   pipe_err, stdout_lines, stderr_lines, ret, infra_seen, orch_vars, aux_vars>>

\* process.poll() is not None while a process the child spawned holds the pipes
\* open: `for line in process.stdout` waits for the end of the stream
DrainWaits ==
    /\ rpc = "loop"
    /\ child = "exited"
    /\ ~EndOfStream
    /\ rpc' = "drain"
    /\ UNCHANGED <<timeout_seconds, child, descendants, returncode, elapsed, pipe_out,
                   pipe_err, stdout_lines, stderr_lines, ret, infra_seen, orch_vars, aux_vars>>

\* process.poll() is not None: the remaining output is read and the result returned
LoopExit ==
    /\ rpc = "loop" \/ (rpc = "drain" /\ EndOfStream)
    /\ child = "exited"
    /\ stdout_lines' = stdout_lines \o pipe_out
    /\ stderr_lines' = stderr_lines \o pipe_err
    /\ pipe_out' = <<>>
    /\ pipe_err' = <<>>
    /\ ret' = ExitReturn(stdout_lines', stderr_lines', returncode)
    /\ rpc' = "returned"
    /\ UNCHANGED <<timeout_seconds, child, descendants, returncode, elapsed, infra_seen,
                   orch_vars, aux_vars>>

\* the next call of run_with_timeout (one per phase)
NextCall ==
    /\ rpc = "returned"
    /\ infra_seen' = IF child = "none" THEN infra_seen \cup {ret} ELSE infra_seen
    /\ rpc' = "popen"
    /\ child' = "none"
    /\ descendants' = {}
    /\ returncode' = 0
    /\ elapsed' = 0
    /\ pipe_out' = <<>>
    /\ pipe_err' = <<>>
    /\ stdout_lines' = <<>>
    /\ stderr_lines' = <<>>
    /\ ret' = None
    /\ UNCHANGED <<timeout_seconds, orch_vars, aux_vars>>

RunnerNext ==
    \/ PopenRaises
    \/ PopenStarts
    \/ ChildWritesOut
    \/ ChildWritesErr
    \/ ChildWritesPartial
    \/ ChildCompletesLine
    \/ ChildExits
    \/ DescendantExits
    \/ Tick
    \/ LoopTimeout
    \/ LoopRead
    \/ ReadlineWaits
    \/ DrainWaits
    \/ LoopExit
    \/ NextCall

RunnerSpec == RunnerInit /\ [][RunnerNext]_vars

\* the steps of run_with_timeout itself and the clock; none of the child's
RunnerProgress ==
    PopenRaises \/ PopenStarts \/ Tick \/ LoopTimeout \/ LoopRead \/ ReadlineWaits
        \/ DrainWaits \/ LoopExit

FairRunnerSpec == RunnerSpec /\ WF_vars(RunnerProgress)

(***************************************************************************)
(* create_multiswebench_config.                                            *)
(***************************************************************************)
\* max(a, b)
Max(a, b) == IF a >= b THEN a ELSE b

\* the values of the phase argument
PhaseArgs == {"all", "image", "instance"}

\* {"image": "image", "instance": "instance_only"}.get(phase, "evaluation")
Mode(ph) == IF ph = "image" THEN "image"
            ELSE IF ph = "instance" THEN "instance_only"
            ELSE "evaluation"

\* the config dict, without its paths
Config(mw, fr, ua, ph) ==
    [mode                     |-> Mode(ph),
     force_build              |-> fr,
     stop_on_error            |-> FALSE,
     max_workers              |-> mw,
     max_workers_build_image  |-> Max(1, mw \div 2),
     max_workers_run_instance |-> Max(1, mw \div 2),
     use_apptainer            |-> ua]

\* the instances of predictions, in the order of the dict
InstOrder == <<"X", "Y">>

\* an entry of bad_patches: a dict with the key "patch", or one without it
BadPatchEntries == {"patch", "no_patch"}

\* the lists of bad_patches entries of an instance
BadPatchLists == UNION {[1 .. n -> BadPatchEntries] : n \in 0 .. MaxBad}

\* for instance in predictions: the lines the loop writes to the patch file from the
\* k-th instance on, and whether bad_patch[bad_patch_index]["patch"] raised KeyError,
\* which ends the loop
RECURSIVE PatchLines(_, _, _)
PatchLines(preds, idx, k) ==
    IF k > Len(InstOrder)
    THEN [written |-> <<>>, raised |-> FALSE]
    ELSE LET x    == InstOrder[k]
             rest == PatchLines(preds, idx, k + 1)
         IN  IF idx # -1
             THEN IF idx < Len(preds[x])
                  THEN IF preds[x][idx + 1] = "no_patch"
                       THEN [written |-> <<>>, raised |-> TRUE]
                       ELSE [written |-> <<[instance |-> x, fix_patch |-> <<"bad", idx>>]>>
                                         \o rest.written,
                             raised  |-> rest.raised]
                  ELSE rest
             ELSE [written |-> <<[instance |-> x, fix_patch |-> <<"gold">>]>> \o rest.written,
                   raised  |-> rest.raised]

ConfigInit ==
    /\ OrchIdle
    /\ RunnerIdle
    /\ ValidationIdle
    /\ IdIdle
    /\ SubmitIdle
    /\ RaceIdle
    /\ StyleIdle
    /\ DiskIdle
    /\ GcIdle
    /\ BatchIdle
    /\ max_workers \in 0 .. MaxWorkers
    /\ force_rebuild \in BOOLEAN
    /\ use_apptainer \in BOOLEAN
    /\ phase \in PhaseArgs
    /\ config = None
    /\ predictions \in [Inst -> BadPatchLists]
    /\ index_arg \in -1 .. MaxBad - 1
    /\ patch_lines = <<>>
    /\ raised = FALSE
    /\ DriverIdle
    /\ PoolIdle
    /\ CheckoutIdle

\* create_multiswebench_config writes the patch file, then the config file; a
\* KeyError in the loop over the predictions ends the call before the config file
CreateConfig ==
    /\ config = None
    /\ ~raised
    /\ LET r == PatchLines(predictions, index_arg, 1)
       IN  /\ patch_lines' = r.written
           /\ raised' = r.raised
           /\ config' = IF r.raised
                        THEN None
                        ELSE Some(Config(max_workers, force_rebuild, use_apptainer, phase))
    /\ UNCHANGED <<max_workers, force_rebuild, use_apptainer, phase, predictions, index_arg,
                   cfg_frame>>

ConfigNext == CreateConfig

ConfigSpec == ConfigInit /\ [][ConfigNext]_vars

(***************************************************************************)
(* The prediction drivers.                                                 *)
(***************************************************************************)
\* the instance ids of the dataset, in its order; each id is in it once
Dataset == [i \in 1 .. NumTasks |-> i]

Drivers == {"sweagent", "aider"}

\* what the agent comes to for one instance: a diff, an empty diff, or an error
\* (exception, non-zero exit, timeout)
AgentResults == {"diff", "empty", "error"}

\* the ids of the records of the file
RecordIds(preds) == {preds[j].instance_id : j \in DOMAIN preds}

\* mutant: the file is not read at the start of an invocation
ExistingIds_Empty(preds) == {}

\* existing_ids (sweagent), done (aider), completed_instances (aider_batch): the
\* instance_id of every line of all_preds.jsonl
ExistingIds(preds) == RecordIds(preds)

\* [d for d in dataset if d["instance_id"] in instance_ids], instance_ids being None
\* or a list of ids
Filtered(instance_ids) ==
    IF instance_ids = None THEN Dataset
    ELSE SelectSeq(Dataset, LAMBDA i : i \in instance_ids[1])

DriverInit ==
    /\ OrchIdle
    /\ RunnerIdle
    /\ ValidationIdle
    /\ IdIdle
    /\ SubmitIdle
    /\ RaceIdle
    /\ StyleIdle
    /\ DiskIdle
    /\ GcIdle
    /\ BatchIdle
    /\ ConfigIdle
    /\ PoolIdle
    /\ CheckoutIdle
    /\ all_preds = <<>>
    /\ driver \in Drivers
    /\ dpc = "stopped"
    /\ existing_ids = {}
    /\ todo = <<>>
    /\ invocations = 0
    /\ crashed = FALSE
    /\ ran_recorded = {}
    /\ ever_written = {}
    /\ errors = {}

\* main is called: the dataset is loaded and filtered, all_preds.jsonl is read
DriverStart(k, instance_ids) ==
    /\ dpc = "stopped"
    /\ invocations < MaxInvocations
    /\ driver' = k
    /\ todo' = Filtered(instance_ids)
    /\ existing_ids' = ExistingIds(all_preds)
    /\ dpc' = "loop"
    /\ invocations' = invocations + 1
    /\ UNCHANGED <<all_preds, crashed, ran_recorded, ever_written, errors, drv_frame>>

\* an iteration of the loop for an instance whose id was read from the file
DriverSkip ==
    /\ dpc = "loop"
    /\ todo # <<>>
    /\ Head(todo) \in existing_ids
    /\ todo' = Tail(todo)
    /\ UNCHANGED <<all_preds, driver, dpc, existing_ids, invocations, crashed,
                   ran_recorded, ever_written, errors, drv_frame>>

\* an iteration of the loop that runs the agent. sweagent: an exception of
\* run_sweagent_single ends main, else the record is appended. aider: on an error
\* run_aider_single returns (err, {}) and res['model_patch'] raises KeyError, which
\* ends main; after a diff, or NUM_RETRIES empty diffs, the record is appended.
DriverRun(result) ==
    /\ dpc = "loop"
    /\ todo # <<>>
    /\ Head(todo) \notin existing_ids
    /\ ran_recorded' = ran_recorded \cup ({Head(todo)} \cap RecordIds(all_preds))
    /\ errors' = IF result = "error" THEN errors \cup {Head(todo)} ELSE errors
    /\ IF result = "error"
       THEN /\ dpc' = "stopped"
            /\ crashed' = TRUE
            /\ UNCHANGED <<all_preds, todo, ever_written>>
       ELSE /\ all_preds' = Append(all_preds,
                                   [instance_id |-> Head(todo),
                                    model_patch |-> IF result = "diff" THEN "diff" ELSE ""])
            /\ ever_written' = ever_written \cup {Head(todo)}
            /\ todo' = Tail(todo)
            /\ UNCHANGED <<dpc, crashed>>
    /\ UNCHANGED <<driver, existing_ids, invocations, drv_frame>>

\* the process is killed between two instances
DriverCrash ==
    /\ dpc = "loop"
    /\ todo # <<>>
    /\ dpc' = "stopped"
    /\ crashed' = TRUE
    /\ UNCHANGED <<all_preds, driver, existing_ids, todo, invocations, ran_recorded,
                   ever_written, errors, drv_frame>>

\* the loop is over
DriverEnd ==
    /\ dpc = "loop"
    /\ todo = <<>>
    /\ dpc' = "stopped"
    /\ UNCHANGED <<all_preds, driver, existing_ids, todo, invocations, crashed,
                   ran_recorded, ever_written, errors, drv_frame>>

DriverNext ==
    \/ \E k \in Drivers, instance_ids \in {None} \cup {Some(S) : S \in SUBSET (1 .. NumTasks)} :
          DriverStart(k, instance_ids)
    \/ DriverSkip
    \/ \E result \in AgentResults : DriverRun(result)
    \/ DriverCrash
    \/ DriverEnd

DriverSpec == DriverInit /\ [][DriverNext]_vars

(***************************************************************************)
(* run_java_style_review: main and run_style_review.                       *)
(***************************************************************************)
\* the pull requests of the dataset file: load_dataset keeps one item per
\* f"{org}/{repo}:{number}"
PullRequests == [org : {"o"}, repo : {"r1", "r2"}, number : {1, 2}]

\* mutant: the directory of an instance does not carry the number of its pull request
workdir_NoNumber(pr) == "style-review"

\* JavaStyleReviewImage.workdir
workdir(pr) == "style-review-" \o ToString(pr.number)

\* JavaStyleReviewImage.image_tag
image_tag(pr) == "style-review-" \o ToString(pr.number)

\* Image.image_name: the name of the repository's images
image_name(pr) == pr.org \o "/" \o pr.repo

\* Image.image_full_name
image_full_name(pr) == <<image_name(pr), image_tag(pr)>>

\* instance_dir / "repo"
repo_dir(pr) == <<pr.org, pr.repo, "style_review", workdir(pr), "repo">>

\* the tasks a worker thread of the pool is running
Active == {i \in instances : task[i] \notin {"queued", "done"}}

\* the tasks writing an image, and those writing a repo directory
Building == {i \in instances : task[i] = "building"}
Cloning  == {i \in instances : task[i] \in {"cloning", "updating"}}

PoolInit ==
    /\ OrchIdle
    /\ RunnerIdle
    /\ ValidationIdle
    /\ IdIdle
    /\ SubmitIdle
    /\ RaceIdle
    /\ StyleIdle
    /\ DiskIdle
    /\ GcIdle
    /\ BatchIdle
    /\ DriverIdle
    /\ CheckoutIdle
    /\ max_workers \in 1 .. PoolTasks
    /\ force_rebuild \in BOOLEAN
    /\ use_apptainer = FALSE /\ phase = "all" /\ config = None
    /\ predictions = <<>> /\ index_arg = -1 /\ patch_lines = <<>> /\ raised = FALSE
    /\ instances \in {S \in SUBSET PullRequests : Cardinality(S) \in 1 .. PoolTasks}
    /\ task = [i \in instances |-> "queued"]
    /\ images \in SUBSET {image_full_name(i) : i \in instances}
    /\ repo_dirs \in SUBSET {repo_dir(i) : i \in instances}

\* a worker thread of the ThreadPoolExecutor takes the task of an instance
Dispatch(i) ==
    /\ task[i] = "queued"
    /\ Cardinality(Active) < max_workers
    /\ task' = [task EXCEPT ![i] = "image"]
    /\ UNCHANGED <<instances, images, repo_dirs, pool_frame>>

\* mutant: an image is built only when it does not exist
NeedsBuild_WhenMissing(force, exists) == ~exists

\* if force_rebuild or not docker_util.exists(image_name)
NeedsBuild(force, exists) == force \/ ~exists

\* the check of the image, before the build or, without one, the repo
CheckImage(i) ==
    /\ task[i] = "image"
    /\ task' = [task EXCEPT ![i] =
                   IF NeedsBuild(force_rebuild, image_full_name(i) \in images)
                   THEN "building" ELSE "repo"]
    /\ UNCHANGED <<instances, images, repo_dirs, pool_frame>>

\* docker_util.build returns (the image exists) or raises (the task returns None)
BuildEnds(i, ok) ==
    /\ task[i] = "building"
    /\ IF ok
       THEN /\ images' = images \cup {image_full_name(i)}
            /\ task' = [task EXCEPT ![i] = "repo"]
       ELSE /\ images' = images
            /\ task' = [task EXCEPT ![i] = "done"]
    /\ UNCHANGED <<instances, repo_dirs, pool_frame>>

\* if not repo_dir.exists(): git clone, git checkout; else git rev-parse, and git
\* fetch, git checkout if HEAD is not the base commit
CheckRepo(i) ==
    /\ task[i] = "repo"
    /\ task' = [task EXCEPT ![i] =
                   IF repo_dir(i) \notin repo_dirs THEN "cloning" ELSE "updating"]
    /\ UNCHANGED <<instances, images, repo_dirs, pool_frame>>

\* the git commands on the repo directory end: with success the style review is run
\* and the task returns its report; with a failure the task returns None. A clone
\* that was started leaves its directory.
RepoEnds(i, ok) ==
    /\ task[i] \in {"cloning", "updating"}
    /\ repo_dirs' = repo_dirs \cup {repo_dir(i)}
    /\ task' = [task EXCEPT ![i] = IF ok THEN "review" ELSE "done"]
    /\ UNCHANGED <<instances, images, pool_frame>>

\* the style review of the instance ends and the task returns
ReviewEnds(i) ==
    /\ task[i] = "review"
    /\ task' = [task EXCEPT ![i] = "done"]
    /\ UNCHANGED <<instances, images, repo_dirs, pool_frame>>

PoolNext ==
    \/ \E i \in instances : Dispatch(i)
    \/ \E i \in instances : CheckImage(i)
    \/ \E i \in instances, ok \in BOOLEAN : BuildEnds(i, ok)
    \/ \E i \in instances : CheckRepo(i)
    \/ \E i \in instances, ok \in BOOLEAN : RepoEnds(i, ok)
    \/ \E i \in instances : ReviewEnds(i)

PoolSpec == PoolInit /\ [][PoolNext]_vars

(***************************************************************************)
(* ensure_repo_cloned / clone_repo, then apply_patch.                      *)
(***************************************************************************)
Impls == {"patch_application", "acr_runner"}

\* a patch applies to the base commit as it is, or with the relaxed application alone,
\* or not at all
Patches == {"clean", "fuzzy", "conflict"}

\* whether a command of apply_patch can end with success (ok) or failure: on the base
\* commit by the patch, on another commit either way
CanEnd(mode, ok) ==
    repo = "base" =>
        ok = IF mode = "strict" THEN patch = "clean" ELSE patch \in {"clean", "fuzzy"}

\* a git or patch command run by apply_patch
Command(mode, ok) == [mode |-> mode, ok |-> ok]

\* mutant: the relaxed application is run whatever the strict one came to
NeedsFallback_Always(strict_ok) == TRUE

\* except RuntimeError / except subprocess.CalledProcessError: the strict git apply
\* exited non-zero
NeedsFallback(strict_ok) == ~strict_ok

CheckoutInit ==
    /\ OrchIdle
    /\ RunnerIdle
    /\ ValidationIdle
    /\ IdIdle
    /\ SubmitIdle
    /\ RaceIdle
    /\ StyleIdle
    /\ DiskIdle
    /\ GcIdle
    /\ BatchIdle
    /\ ConfigIdle
    /\ DriverIdle
    /\ PoolIdle
    /\ impl \in Impls
    /\ patch \in Patches
    /\ cpc = "idle"
    /\ repo = "absent"
    /\ attempts = 0
    /\ outcome = "none"
    /\ tmp_patch = FALSE
    /\ applied = <<>>
    /\ apply_result = "none"

\* the provisioning function is called, the first time or again after it raised.
\* ensure_repo_cloned: an existing repo directory is returned as it is.
\* clone_repo: an existing directory is removed first.
ProvisionCall ==
    /\ cpc = "idle"
    /\ outcome # "returned"
    /\ attempts < MaxAttempts
    /\ attempts' = attempts + 1
    /\ IF repo = "absent"
       THEN /\ cpc' = "clone"
            /\ UNCHANGED <<repo, outcome>>
       ELSE IF impl = "patch_application"
            THEN /\ outcome' = "returned"
                 /\ cpc' = "apply"
                 /\ repo' = repo
            ELSE /\ repo' = "absent"
                 /\ cpc' = "clone"
                 /\ outcome' = outcome
    /\ UNCHANGED <<impl, patch, tmp_patch, applied, apply_result, co_frame>>

\* git clone ends: the clone is at the HEAD of the default branch, or git failed and
\* left no directory and the function raises
CloneEnds(ok) ==
    /\ cpc = "clone"
    /\ IF ok
       THEN /\ repo' = "default"
            /\ cpc' = "checkout"
            /\ outcome' = outcome
       ELSE /\ repo' = repo
            /\ cpc' = "idle"
            /\ outcome' = "raised"
    /\ UNCHANGED <<impl, patch, attempts, tmp_patch, applied, apply_result, co_frame>>

\* git checkout <base commit> ends. ensure_repo_cloned raises if it failed;
\* clone_repo goes on to git fetch origin.
CheckoutEnds(ok) ==
    /\ cpc = "checkout"
    /\ IF ok
       THEN /\ repo' = "base"
            /\ cpc' = "apply"
            /\ outcome' = "returned"
       ELSE /\ repo' = repo
            /\ IF impl = "patch_application"
               THEN cpc' = "idle" /\ outcome' = "raised"
               ELSE cpc' = "fetch" /\ outcome' = outcome
    /\ UNCHANGED <<impl, patch, attempts, tmp_patch, applied, apply_result, co_frame>>

\* clone_repo: git fetch origin ends (check=True)
FetchEnds(ok) ==
    /\ cpc = "fetch"
    /\ IF ok
       THEN cpc' = "checkout2" /\ outcome' = outcome
       ELSE cpc' = "idle" /\ outcome' = "raised"
    /\ UNCHANGED <<impl, patch, repo, attempts, tmp_patch, applied, apply_result, co_frame>>

\* clone_repo: the second git checkout ends (check=True)
SecondCheckoutEnds(ok) ==
    /\ cpc = "checkout2"
    /\ IF ok
       THEN /\ repo' = "base"
            /\ cpc' = "apply"
            /\ outcome' = "returned"
       ELSE /\ repo' = repo
            /\ cpc' = "idle"
            /\ outcome' = "raised"
    /\ UNCHANGED <<impl, patch, attempts, tmp_patch, applied, apply_result, co_frame>>

\* the process is killed while the clone exists and the base commit is not checked out
KilledBeforeCheckout ==
    /\ cpc \in {"checkout", "fetch", "checkout2"}
    /\ cpc' = "idle"
    /\ outcome' = "raised"
    /\ UNCHANGED <<impl, patch, repo, attempts, tmp_patch, applied, apply_result, co_frame>>

\* apply_patch writes the patch to a temporary file and runs the strict git apply
ApplyStrict(ok) ==
    /\ cpc = "apply"
    /\ CanEnd("strict", ok)
    /\ applied' = Append(applied, Command("strict", ok))
    /\ IF NeedsFallback(ok)
       THEN /\ cpc' = "fallback"
            /\ tmp_patch' = TRUE
            /\ apply_result' = apply_result
       ELSE /\ cpc' = "done"
            /\ tmp_patch' = FALSE
            /\ apply_result' = IF ok THEN "ok" ELSE "error"
    /\ UNCHANGED <<impl, patch, repo, attempts, outcome, co_frame>>

\* the relaxed application: git apply --3way (patch_application, which removes the
\* temporary file in its finally clause) or patch --fuzz=5 (acr_runner, which unlinks
\* it after the command and so not when the command raises)
ApplyRelaxed(ok) ==
    /\ cpc = "fallback"
    /\ CanEnd("relaxed", ok)
    /\ applied' = Append(applied, Command("relaxed", ok))
    /\ apply_result' = IF ok THEN "ok" ELSE "error"
    /\ tmp_patch' = (impl = "acr_runner" /\ ~ok)
    /\ cpc' = "done"
    /\ UNCHANGED <<impl, patch, repo, attempts, outcome, co_frame>>

CheckoutNext ==
    \/ ProvisionCall
    \/ \E ok \in BOOLEAN : CloneEnds(ok)
    \/ \E ok \in BOOLEAN : CheckoutEnds(ok)
    \/ \E ok \in BOOLEAN : FetchEnds(ok)
    \/ \E ok \in BOOLEAN : SecondCheckoutEnds(ok)
    \/ KilledBeforeCheckout
    \/ \E ok \in BOOLEAN : ApplyStrict(ok)
    \/ \E ok \in BOOLEAN : ApplyRelaxed(ok)

CheckoutSpec == CheckoutInit /\ [][CheckoutNext]_vars

(***************************************************************************)
(* The batch runner of AutoCodeRover.  run_batch_processing goes through   *)
(* the modes, in each mode through the tasks, and calls run_single up to   *)
(* max_retries times for a task.  run_single works in a directory made by  *)
(* tempfile.mkdtemp; in mode testgen it hands over to run_custom_testgen,  *)
(* which works in two directories named after the task id.                 *)
(***************************************************************************)
\* the instance ids of the tasks
BatchTaskIds == 1..BatchTasks

\* the lists of modes a batch is run with
ModeLists == {<<"bugfixing">>, <<"testgen">>, <<"bugfixing", "testgen">>,
              <<"bugfixing", "bugfixing">>}

\* the random part of a name mkdtemp makes
Suffixes == {"a", "b"}

\* how a call of run_single ends before it hands over to run_custom_testgen
\* ("success" is return {"patch": ...}, the others raise)
SinglePaths == {"clone_failure", "patch_failure", "agent_failure", "timeout", "success"}

\* how run_custom_testgen ends ("none" is return None)
CustomPaths == {"none", "timeout", "success"}

\* tempfile.mkdtemp(prefix=f"acr_{task_id}_", dir=tmp_root)
mkdtemp(t, sfx) == "auto-code-rover/acr_tmp/acr_" \o ToString(t) \o "_" \o sfx

\* run_custom_testgen: repo_dir and work_dir
custom_dirs(t) == {"acr_tmp/acr_" \o ToString(t) \o "_u_" \o ToString(t),
                   "acr_tmp/acr_" \o ToString(t) \o "_u_" \o ToString(t) \o "_work"}

\* mutant: the directories are left behind
rmtree_Keep(dirs, gone) == dirs

\* shutil.rmtree of the directories gone
rmtree(dirs, gone) == dirs \ gone

\* mutant: the first wait is two seconds
Backoff_FromTwo(k) == 2^(k + 1)

\* time.sleep(2 ** attempt)
Backoff(k) == 2^k

current_mode == modes[mode_idx]

\* progress = {"completed_tasks": 0, "failed_tasks": 0, "mode_progress": {}}
NoProgress == [completed_tasks |-> 0, failed_tasks |-> 0, mode_progress |-> <<>>]

\* progress["mode_progress"][mode] = {"completed": 0, "failed": 0, "total": len(tasks)}
StartMode(p, mode) ==
    [p EXCEPT !.mode_progress =
                  (mode :> [completed |-> 0, failed |-> 0, total |-> BatchTasks]) @@ @]

\* mutant: a failed task is not counted
Tally_CompletedOnly(p, mode, ok) ==
    IF ok
    THEN [p EXCEPT !.completed_tasks = @ + 1, !.mode_progress[mode].completed = @ + 1]
    ELSE p

\* the update of the progress after results.append(result)
Tally(p, mode, ok) ==
    IF ok
    THEN [p EXCEPT !.completed_tasks = @ + 1, !.mode_progress[mode].completed = @ + 1]
    ELSE [p EXCEPT !.failed_tasks = @ + 1, !.mode_progress[mode].failed = @ + 1]

BatchInit ==
    /\ OrchIdle
    /\ RunnerIdle
    /\ ValidationIdle
    /\ IdIdle
    /\ SubmitIdle
    /\ RaceIdle
    /\ StyleIdle
    /\ DiskIdle
    /\ GcIdle
    /\ ConfigIdle
    /\ DriverIdle
    /\ PoolIdle
    /\ CheckoutIdle
    /\ max_retries \in 1..MaxRetries
    /\ modes \in ModeLists
    /\ bpc = "attempt"
    /\ mode_idx = 1
    /\ task_idx = 1
    /\ attempt = 0
    /\ tmp_dirs = {}
    /\ work = None
    /\ results = <<>>
    /\ saved = <<>>
    /\ calls = 0
    /\ success = FALSE
    /\ late_call = FALSE
    /\ waits = <<>>
    /\ dir_users = {}
    /\ progress = StartMode(NoProgress, modes[1])

\* the body of for attempt in range(max_retries) up to the mkdtemp of run_single
RunSingleStart(sfx) ==
    /\ bpc = "attempt"
    /\ mkdtemp(task_idx, sfx) \notin tmp_dirs
    /\ bpc' = "run_single"
    /\ work' = Some(mkdtemp(task_idx, sfx))
    /\ tmp_dirs' = tmp_dirs \cup {mkdtemp(task_idx, sfx)}
    /\ dir_users' = dir_users \cup {<<mkdtemp(task_idx, sfx), task_idx>>}
    /\ calls' = calls + 1
    /\ late_call' = (late_call \/ success)
    /\ UNCHANGED <<max_retries, modes, mode_idx, task_idx, attempt, results, saved,
                   success, waits, progress, batch_frame>>

\* if mode == "testgen" and agentic: return run_custom_testgen(...), as far as
\* the clone and work_dir.mkdir
EnterCustom ==
    /\ bpc = "run_single"
    /\ current_mode = "testgen"
    /\ bpc' = "custom"
    /\ tmp_dirs' = tmp_dirs \cup custom_dirs(task_idx)
    /\ dir_users' = dir_users \cup {<<d, task_idx>> : d \in custom_dirs(task_idx)}
    /\ UNCHANGED <<max_retries, modes, mode_idx, task_idx, attempt, work, results, saved,
                   calls, success, late_call, waits, progress, batch_frame>>

\* after the loop over the attempts: the result record, results.append(result),
\* and the next task, the next mode or the end of the batch
RecordResult ==
    LET result == [instance_id |-> task_idx, mode |-> current_mode, success |-> success,
                   attempts |-> IF success THEN 1 ELSE attempt + 1]
    IN  /\ bpc = "record"
        /\ calls' = 0
        /\ waits' = <<>>
        /\ success' = FALSE
        /\ attempt' = 0
        /\ IF task_idx < BatchTasks
           THEN /\ task_idx' = task_idx + 1
                /\ results' = Append(results, result)
                /\ bpc' = "attempt"
                /\ progress' = Tally(progress, current_mode, success)
                /\ UNCHANGED <<mode_idx, saved>>
           ELSE /\ saved' = (current_mode :> Append(results, result)) @@ saved
                /\ IF mode_idx < Len(modes)
                   THEN /\ mode_idx' = mode_idx + 1
                        /\ task_idx' = 1
                        /\ results' = <<>>
                        /\ bpc' = "attempt"
                        /\ progress' = StartMode(Tally(progress, current_mode, success),
                                                 modes[mode_idx + 1])
                   ELSE /\ bpc' = "finished"
                        /\ progress' = Tally(progress, current_mode, success)
                        /\ results' = Append(results, result)
                        /\ UNCHANGED <<mode_idx, task_idx>>
        /\ UNCHANGED <<max_retries, modes, tmp_dirs, work, late_call, dir_users, batch_frame>>

\* run_batch_processing after the call of run_single: break on a result;
\* otherwise the sleep when an attempt is left, the record when none is
AttemptEnds(ok) ==
    /\ success' = ok
    /\ bpc' = IF ok THEN "record"
              ELSE IF attempt < max_retries - 1 THEN "sleep" ELSE "record"
    /\ UNCHANGED <<mode_idx, task_idx, attempt, results, saved, calls, waits>>

\* run_single returns or raises: finally removes the work directory
RunSingleEnds(path) ==
    /\ bpc = "run_single"
    /\ path = "success" => current_mode # "testgen"
    /\ tmp_dirs' = rmtree(tmp_dirs, {work[1]})
    /\ work' = None
    /\ AttemptEnds(path = "success")
    /\ UNCHANGED <<max_retries, modes, late_call, dir_users, progress, batch_frame>>

\* run_custom_testgen returns or the alarm goes off in it: its finally removes its
\* two directories, then the finally of run_single the work directory
CustomEnds(path) ==
    /\ bpc = "custom"
    /\ tmp_dirs' = rmtree(rmtree(tmp_dirs, custom_dirs(task_idx)), {work[1]})
    /\ work' = None
    /\ AttemptEnds(path = "success")
    /\ UNCHANGED <<max_retries, modes, late_call, dir_users, progress, batch_frame>>

\* time.sleep(2 ** attempt), then the next attempt
Sleep ==
    /\ bpc = "sleep"
    /\ waits' = Append(waits, Backoff(attempt))
    /\ attempt' = attempt + 1
    /\ bpc' = "attempt"
    /\ UNCHANGED <<max_retries, modes, mode_idx, task_idx, tmp_dirs, work, results, saved,
                   calls, success, late_call, dir_users, progress, batch_frame>>

BatchNext ==
    \/ \E sfx \in Suffixes : RunSingleStart(sfx)
    \/ EnterCustom
    \/ \E path \in SinglePaths : RunSingleEnds(path)
    \/ \E path \in CustomPaths : CustomEnds(path)
    \/ Sleep
    \/ RecordResult

BatchSpec == BatchInit /\ [][BatchNext]_vars

(***************************************************************************)
(* create_image_wrapped: the image of a VM is looked up by its name; with  *)
(* rebuild an image found is deleted and the image is created, without     *)
(* rebuild an image found is used as it is.                                *)
(***************************************************************************)
GcInit ==
    /\ OrchIdle
    /\ RunnerIdle
    /\ ValidationIdle
    /\ IdIdle
    /\ SubmitIdle
    /\ RaceIdle
    /\ StyleIdle
    /\ DiskIdle
    /\ ConfigIdle
    /\ DriverIdle
    /\ PoolIdle
    /\ CheckoutIdle
    /\ BatchIdle
    /\ rebuild \in BOOLEAN
    /\ gc_image \in {"absent", "old"}
    /\ image_exists = FALSE
    /\ gpc = "check"
    /\ gc_ops = <<>>

\* image_exists = check_image_exists(...), then the branch on rebuild; without
\* rebuild the call returns, the image path or None
CheckExists ==
    /\ gpc = "check"
    /\ image_exists' = (gc_image # "absent")
    /\ gpc' = IF rebuild
              THEN IF gc_image # "absent" THEN "delete" ELSE "create"
              ELSE "returned"
    /\ UNCHANGED <<rebuild, gc_image, gc_ops, gc_frame>>

\* delete_image: True, or False after an error; its value is not looked at
DeleteEnds(ok) ==
    /\ gpc = "delete"
    /\ gc_image' = IF ok THEN "absent" ELSE gc_image
    /\ gc_ops' = Append(gc_ops, "delete")
    /\ gpc' = "create"
    /\ UNCHANGED <<rebuild, image_exists, gc_frame>>

\* create_image_from_vm: the image is made, or the call raises (an error of the
\* insert request, as for a name that is taken, or the timeout)
CreateEnds(ok) ==
    /\ gpc = "create"
    /\ ok => gc_image = "absent"
    /\ gc_image' = IF ok THEN "new" ELSE gc_image
    /\ gc_ops' = Append(gc_ops, "create")
    /\ gpc' = IF ok THEN "returned" ELSE "raised"
    /\ UNCHANGED <<rebuild, image_exists, gc_frame>>

GcNext ==
    \/ CheckExists
    \/ \E ok \in BOOLEAN : DeleteEnds(ok)
    \/ \E ok \in BOOLEAN : CreateEnds(ok)

GcSpec == GcInit /\ [][GcNext]_vars

\* the two places images are built: a run is a style review or a call of
\* create_image_wrapped
ImageInit == PoolInit \/ GcInit

ImageNext == PoolNext \/ GcNext

ImageSpec == ImageInit /\ [][ImageNext]_vars

(***************************************************************************)
(* run_style_review once the image and the repo are there: the statistics  *)
(* are extracted from original_run.log and patched_run.log into the two    *)
(* report files, then the two containers are run, each writing its log,    *)
(* then the report is made from the report files.                          *)
(***************************************************************************)
\* a log file written by the container run of invocation n, with or without the
\* line "Final statistics:"
Log(n, stats) == Some([run |-> n, stats |-> stats])

\* extract_checkstyle_stats_from_log and the write of the report file: the file is
\* written if the log exists and has the statistics, else left as it is
ExtractStats(log, file) ==
    IF log # None /\ log[1].stats THEN Some(log[1].run) ELSE file

StyleInit ==
    /\ OrchIdle
    /\ RunnerIdle
    /\ ValidationIdle
    /\ IdIdle
    /\ SubmitIdle
    /\ RaceIdle
    /\ ConfigIdle
    /\ DriverIdle
    /\ PoolIdle
    /\ CheckoutIdle
    /\ BatchIdle
    /\ GcIdle
    /\ DiskIdle
    /\ run_no = 1
    /\ spc = "extract"
    /\ orig_log = None
    /\ patched_log = None
    /\ original_report = None
    /\ patched_report = None
    /\ style_report = None

\* the extraction from the logs, before the containers are run
ExtractFromLogs ==
    /\ spc = "extract"
    /\ original_report' = ExtractStats(orig_log, original_report)
    /\ patched_report' = ExtractStats(patched_log, patched_report)
    /\ spc' = "original"
    /\ UNCHANGED <<run_no, orig_log, patched_log, style_report, style_frame>>

\* docker_util.run of the original style check: it writes original_run.log, or
\* raises, which is logged
RunOriginal(ok, stats) ==
    /\ spc = "original"
    /\ orig_log' = IF ok THEN Log(run_no, stats) ELSE orig_log
    /\ spc' = "patched"
    /\ UNCHANGED <<run_no, patched_log, original_report, patched_report, style_report,
                   style_frame>>

\* docker_util.run of the patched style check
RunPatched(ok, stats) ==
    /\ spc = "patched"
    /\ patched_log' = IF ok THEN Log(run_no, stats) ELSE patched_log
    /\ spc' = "load"
    /\ UNCHANGED <<run_no, orig_log, original_report, patched_report, style_report,
                   style_frame>>

\* the report is made from the two report files; when one is missing open() raises,
\* report is unbound and run_style_review returns None
LoadReports ==
    /\ spc = "load"
    /\ style_report' = IF original_report # None /\ patched_report # None
                       THEN Some([original |-> original_report[1],
                                  patched  |-> patched_report[1]])
                       ELSE None
    /\ spc' = "returned"
    /\ UNCHANGED <<run_no, orig_log, patched_log, original_report, patched_report,
                   style_frame>>

\* run_style_review is run again on the instance (a later run of main with the same
\* workdir)
NextReview ==
    /\ spc = "returned"
    /\ run_no >= 1
    /\ run_no < MaxReviews
    /\ run_no' = run_no + 1
    /\ spc' = "extract"
    /\ style_report' = None
    /\ UNCHANGED <<orig_log, patched_log, original_report, patched_report, style_frame>>

StyleNext ==
    \/ ExtractFromLogs
    \/ \E ok \in BOOLEAN, stats \in BOOLEAN : RunOriginal(ok, stats)
    \/ \E ok \in BOOLEAN, stats \in BOOLEAN : RunPatched(ok, stats)
    \/ LoadReports
    \/ NextReview

StyleSpec == StyleInit /\ [][StyleNext]_vars

(***************************************************************************)
(* Two processes of a prediction driver run main at the same time with the *)
(* same output directory. Each reads all_preds.jsonl once, at its start,   *)
(* and appends a record after the agent has run (sweagent under flock, the *)
(* write of one line in both drivers being one step).                      *)
(***************************************************************************)
Procs == {1, 2}

RaceInit ==
    /\ OrchIdle
    /\ RunnerIdle
    /\ ValidationIdle
    /\ IdIdle
    /\ SubmitIdle
    /\ ConfigIdle
    /\ DriverIdle
    /\ PoolIdle
    /\ CheckoutIdle
    /\ BatchIdle
    /\ GcIdle
    /\ DiskIdle
    /\ StyleIdle
    /\ proc_ids \in [Procs -> {None} \cup {Some(S) : S \in SUBSET (1 .. NumTasks) \ {{}}}]
    /\ proc_pc = [p \in Procs |-> "start"]
    /\ proc_existing = [p \in Procs |-> {}]
    /\ proc_todo = [p \in Procs |-> <<>>]
    /\ preds_file = <<>>

\* main of process p: the dataset is loaded and filtered, all_preds.jsonl is read
RaceStart(p) ==
    /\ proc_pc[p] = "start"
    /\ proc_pc' = [proc_pc EXCEPT ![p] = "loop"]
    /\ proc_existing' = [proc_existing EXCEPT ![p] = ExistingIds(preds_file)]
    /\ proc_todo' = [proc_todo EXCEPT ![p] = Filtered(proc_ids[p])]
    /\ UNCHANGED <<proc_ids, preds_file, race_frame>>

\* an iteration for an instance whose id the process read at its start
RaceSkip(p) ==
    /\ proc_pc[p] = "loop"
    /\ proc_todo[p] # <<>>
    /\ Head(proc_todo[p]) \in proc_existing[p]
    /\ proc_todo' = [proc_todo EXCEPT ![p] = Tail(proc_todo[p])]
    /\ UNCHANGED <<proc_ids, proc_pc, proc_existing, preds_file, race_frame>>

\* an iteration that runs the agent: the record is appended, or an error ends main
RaceRun(p, result) ==
    /\ proc_pc[p] = "loop"
    /\ proc_todo[p] # <<>>
    /\ Head(proc_todo[p]) \notin proc_existing[p]
    /\ IF result = "error"
       THEN /\ proc_pc' = [proc_pc EXCEPT ![p] = "stopped"]
            /\ UNCHANGED <<proc_todo, preds_file>>
       ELSE /\ preds_file' = Append(preds_file,
                                    [instance_id |-> Head(proc_todo[p]),
                                     model_patch |-> IF result = "diff" THEN "diff" ELSE ""])
            /\ proc_todo' = [proc_todo EXCEPT ![p] = Tail(proc_todo[p])]
            /\ UNCHANGED proc_pc
    /\ UNCHANGED <<proc_ids, proc_existing, race_frame>>

\* the loop of process p is over
RaceEnd(p) ==
    /\ proc_pc[p] = "loop"
    /\ proc_todo[p] = <<>>
    /\ proc_pc' = [proc_pc EXCEPT ![p] = "stopped"]
    /\ UNCHANGED <<proc_ids, proc_existing, proc_todo, preds_file, race_frame>>

RaceNext ==
    \E p \in Procs :
        \/ RaceStart(p)
        \/ RaceSkip(p)
        \/ \E result \in AgentResults : RaceRun(p, result)
        \/ RaceEnd(p)

RaceSpec == RaceInit /\ [][RaceNext]_vars

(***************************************************************************)
(* aider_batch: one sbatch job per instance, after a poll of squeue. The   *)
(* output of squeue is a header, one line per job it lists (it is called   *)
(* with no filter, so the jobs of others are listed too) and, after the    *)
(* split at newlines, an empty string.                                     *)
(***************************************************************************)
\* the comment of the submit loop: "10 jobs + header + empty line"
JobLimit == 10
FullQueueLines == 22
EmptyQueueLines == 2

\* len(squeue().stdout.split("\n"))
SqueueLines == own_jobs + other_jobs + 2

SubmitInit ==
    /\ OrchIdle
    /\ RunnerIdle
    /\ ValidationIdle
    /\ IdIdle
    /\ ConfigIdle
    /\ DriverIdle
    /\ PoolIdle
    /\ CheckoutIdle
    /\ BatchIdle
    /\ GcIdle
    /\ DiskIdle
    /\ StyleIdle
    /\ RaceIdle
    /\ sub_pc = "poll"
    /\ sub_todo \in 0 .. NumInstances
    /\ own_jobs = 0
    /\ other_jobs \in 0 .. MaxOthers

\* the test of the while of the submit loop, or the end of the for
PollQueue ==
    /\ sub_pc = "poll"
    /\ sub_pc' = IF sub_todo = 0 THEN "drain"
                 ELSE IF SqueueLines = FullQueueLines THEN "sleep" ELSE "submit"
    /\ UNCHANGED <<sub_todo, own_jobs, other_jobs, sub_frame>>

\* time.sleep of either loop is over
WakeUp ==
    /\ sub_pc \in {"sleep", "drain_sleep"}
    /\ sub_pc' = IF sub_pc = "sleep" THEN "poll" ELSE "drain"
    /\ UNCHANGED <<sub_todo, own_jobs, other_jobs, sub_frame>>

\* pred_instance: sbatch queues the job, or fails and is only printed
pred_instance(ok) ==
    /\ sub_pc = "submit"
    /\ own_jobs' = IF ok THEN own_jobs + 1 ELSE own_jobs
    /\ sub_todo' = sub_todo - 1
    /\ sub_pc' = "poll"
    /\ UNCHANGED <<other_jobs, sub_frame>>

\* the test of the last while: wait until squeue lists no job
DrainQueue ==
    /\ sub_pc = "drain"
    /\ sub_pc' = IF SqueueLines # EmptyQueueLines THEN "drain_sleep" ELSE "done"
    /\ UNCHANGED <<sub_todo, own_jobs, other_jobs, sub_frame>>

\* the cluster: a job of the script ends
OwnJobEnds ==
    /\ own_jobs > 0
    /\ own_jobs' = own_jobs - 1
    /\ UNCHANGED <<sub_pc, sub_todo, other_jobs, sub_frame>>

\* the cluster: a job of somebody else is queued or ends
OtherJobs(d) ==
    /\ other_jobs + d \in 0 .. MaxOthers
    /\ other_jobs' = other_jobs + d
    /\ UNCHANGED <<sub_pc, sub_todo, own_jobs, sub_frame>>

SubmitNext ==
    \/ PollQueue
    \/ WakeUp
    \/ \E ok \in BOOLEAN : pred_instance(ok)
    \/ DrainQueue
    \/ OwnJobEnds
    \/ \E d \in {-1, 1} : OtherJobs(d)

SubmitSpec == SubmitInit /\ [][SubmitNext]_vars

(***************************************************************************)
(* The instance id of a dataset item. A string is the sequence of its      *)
(* characters, so that str.split is computed and not assumed.              *)
(***************************************************************************)
\* the characters of the names: a letter and the underscore
NameChars == {"a", "_"}

\* the names of organisations and of repositories: they begin with a letter
Names == {s \in UNION {[1 .. n -> NameChars] : n \in 1 .. MaxName} : s[1] # "_"}

\* str(number) of a pull number
Numbers == {<<"1">>, <<"1", "2">>}

\* s.split(sep), from the left, cur being the piece in progress
RECURSIVE SplitFrom(_, _, _)
SplitFrom(s, sep, cur) ==
    IF s = <<>> THEN <<cur>>
    ELSE IF Len(s) >= Len(sep) /\ SubSeq(s, 1, Len(sep)) = sep
         THEN <<cur>> \o SplitFrom(SubSeq(s, Len(sep) + 1, Len(s)), sep, <<>>)
         ELSE SplitFrom(Tail(s), sep, Append(cur, Head(s)))

split(s, sep) == SplitFrom(s, sep, <<>>)

\* l[-k] of a list
FromEnd(l, k) == l[Len(l) + 1 - k]

\* org + "__" + repo + "_" + str(number)
ComposeId(org, repo_name, number) == org \o <<"_", "_">> \o repo_name \o <<"_">> \o number

\* instance.split("__")[0], instance.split("_")[-2], instance.split("_")[-1]
SplitId(id) ==
    [org    |-> split(id, <<"_", "_">>)[1],
     repo   |-> FromEnd(split(id, <<"_">>), 2),
     number |-> FromEnd(split(id, <<"_">>), 1)]

IdInit ==
    /\ OrchIdle
    /\ RunnerIdle
    /\ ValidationIdle
    /\ ConfigIdle
    /\ DriverIdle
    /\ PoolIdle
    /\ CheckoutIdle
    /\ BatchIdle
    /\ GcIdle
    /\ DiskIdle
    /\ StyleIdle
    /\ RaceIdle
    /\ SubmitIdle
    /\ item \in [org : Names, repo : Names, number : Numbers]
    /\ instance = None
    /\ patch_data = None

\* the id of the item is composed (converter, load_mswebench_dataset)
ComposeInstance ==
    /\ instance = None
    /\ instance' = Some(ComposeId(item.org, item.repo, item.number))
    /\ UNCHANGED <<item, patch_data, id_frame>>

\* create_multiswebench_config writes the line of the instance to the patch file
WritePatchData ==
    /\ instance # None
    /\ patch_data = None
    /\ patch_data' = Some(SplitId(instance[1]))
    /\ UNCHANGED <<item, instance, id_frame>>

IdNext == ComposeInstance \/ WritePatchData

IdSpec == IdInit /\ [][IdNext]_vars

(***************************************************************************)
(* bad_patch_validation: one run of the script is one step. An exception   *)
(* nothing catches ends the script with exit status 1.                     *)
(***************************************************************************)
\* the instance ids of mswebench_instances.json, and one that is not in it
DatasetIds == {1}
ArgIds == {1, 2}

\* gen_report.log: absent, or the first of the texts of the script it holds
Logs == {"absent", "There is no valid fix patch result", "Invalid f2p_tests",
         "No fix for failed test", "Test passed in test patch but failed in fix patch",
         "other"}

\* the texts of gen_report.log on which the script exits
InvalidMarkers == {"There is no valid fix patch result", "Invalid f2p_tests"}

\* what a run is given and what it finds on the disk (a python run reads no
\* gen_report.log and searches no work_dir)
ValidationArgs ==
    {a \in [language : {"python", "java"}, instance_id : ArgIds,
            results_exists : BOOLEAN, report_exists : BOOLEAN, unresolved : BOOLEAN,
            log : Logs, work_dir_found : BOOLEAN] :
        a.language = "python" => a.log = "absent" /\ a.work_dir_found}

\* the variable reason after line 75: it is assigned for java only, and only when
\* gen_report.log exists
Reason(a) ==
    IF a.language = "java" /\ a.log # "absent"
    THEN Some(IF a.log = "other" THEN "Unknown reason" ELSE a.log)
    ELSE None

\* len(dataset[task_ix]['bad_patches']) + 1, or 1 without the key
NextIdx(listed) == IF listed = None THEN 1 ELSE listed[1] + 1

Exit1 == [exit |-> 1, res |-> None]

\* the script from its first line to sys.exit
Validation(a, ds) ==
    IF ~a.results_exists THEN Exit1
    ELSE IF ~a.report_exists THEN Exit1
    ELSE IF a.language = "java" /\ a.log \in InvalidMarkers THEN Exit1
    ELSE IF ~a.unresolved THEN Exit1
    ELSE IF a.language = "java" /\ ~a.work_dir_found THEN Exit1  \* NameError: work_dir
    ELSE IF a.instance_id \notin DOMAIN ds THEN Exit1            \* NameError: task_ix
    ELSE IF Reason(a) = None THEN Exit1                          \* NameError: reason
    ELSE [exit |-> 0,
          res  |-> Some([instance_id |-> a.instance_id, idx |-> NextIdx(ds[a.instance_id]),
                         reason |-> Reason(a)[1]])]

ValidationInit ==
    /\ OrchIdle
    /\ RunnerIdle
    /\ ConfigIdle
    /\ DriverIdle
    /\ PoolIdle
    /\ CheckoutIdle
    /\ BatchIdle
    /\ GcIdle
    /\ DiskIdle
    /\ StyleIdle
    /\ RaceIdle
    /\ SubmitIdle
    /\ IdIdle
    /\ val_args = None
    /\ exit_status = 0
    /\ bad_patch_file = <<>>
    /\ dataset_bad \in [DatasetIds -> {None} \cup {Some(n) : n \in 0 .. MaxListed}]

\* a run of the script
RunValidation(a) ==
    /\ Len(bad_patch_file) < MaxRecords
    /\ val_args' = Some(a)
    /\ exit_status' = Validation(a, dataset_bad).exit
    /\ bad_patch_file' = IF Validation(a, dataset_bad).res = None THEN bad_patch_file
                         ELSE Append(bad_patch_file, Validation(a, dataset_bad).res[1])
    /\ UNCHANGED <<dataset_bad, val_frame>>

ValidationNext == \E a \in ValidationArgs : RunValidation(a)

ValidationSpec == ValidationInit /\ [][ValidationNext]_vars

(***************************************************************************)
(* The results of the variants, from the history of the run.               *)
(***************************************************************************)
\* the bad variants of an instance
BadVariants(x) == 0 .. (bad_patches[x] - 1)

\* the variants of an instance: gold (-1) and its bad variants
Variants(x) == {-1} \cup BadVariants(x)

\* the harness reported the variant resolved: its tests passed
VariantPassed(x, p) == truth[p][x] = "resolved"

\* the harness reported the variant unresolved and not in error: its tests failed
VariantFailed(x, p) == truth[p][x] = "unresolved"

\* the variant has no result: its id is among the error ids of its phase's report, or
\* its phase gave no report (timeout, start failure, non-zero exit, no report file)
VariantErrored(x, p) == truth[p][x] \in {"unresolved_error", "error", "none"}

(***************************************************************************)
(* The final report, read by its keys: "success" of EXPECTED_PASS lists    *)
(* the instances whose gold variant passed, "success" of EXPECTED_FAIL the *)
(* bad variants that failed as expected, "failure" of EXPECTED_FAIL the    *)
(* bad variants that violate the expectation.                              *)
(***************************************************************************)
Done == pc = "done"

GoldSuccess == report[1].gold_tests_status.EXPECTED_PASS.success
GoldFailure == report[1].gold_tests_status.EXPECTED_PASS.failure
BadSuccess  == report[1].bad_patches_results.EXPECTED_FAIL.success
BadFailure  == report[1].bad_patches_results.EXPECTED_FAIL.failure

AsExpected(x, i) == BadId(i, x) \in BadSuccess
Violation(x, i)  == BadId(i, x) \in BadFailure

Accepted(x)     == x \in GoldSuccess /\ \A i \in BadVariants(x) : AsExpected(x, i)
Rejected(x)     == x \in GoldSuccess /\ \E i \in BadVariants(x) : Violation(x, i)
Inconclusive(x) == x \notin GoldSuccess

\* the instance appears in the report, by its id or by the id of one of its variants
Mentioned(x) ==
    \/ x \in GoldSuccess \cup GoldFailure
    \/ \E i \in BadVariants(x) : BadId(i, x) \in BadSuccess \cup BadFailure

(***************************************************************************)
(* C1. The final report classifies an instance as accepted if and only if  *)
(* its gold variant passed and every one of its bad variants failed.       *)
(* Fails on the code: run_instances writes the bad variants that failed    *)
(* under "failure" and those that passed under "success" (see C2).         *)
(***************************************************************************)
C1_AcceptedIffGoldPassedAllBadFailed ==
    Done => \A x \in Inst :
        Accepted(x) <=> /\ VariantPassed(x, -1)
                        /\ \A i \in BadVariants(x) : VariantFailed(x, i)

(***************************************************************************)
(* C2. When the gold variant of an instance passed and its bad variant i   *)
(* passed too, the final report marks the instance rejected and lists bad  *)
(* variant i on the "failure" side of EXPECTED_FAIL, never on the          *)
(* "success" side. Fails on the code: the lists are written swapped.       *)
(***************************************************************************)
C2_PassedBadListedAsViolation ==
    Done => \A x \in Inst : \A i \in BadVariants(x) :
        (VariantPassed(x, -1) /\ VariantPassed(x, i))
            => (Rejected(x) /\ Violation(x, i) /\ ~AsExpected(x, i))

C4_ErroredVariantNotRecorded ==
    Done => \A x \in Inst :
        /\ VariantErrored(x, -1) => x \notin GoldSuccess \cup GoldFailure
        /\ \A i \in BadVariants(x) :
               VariantErrored(x, i) => BadId(i, x) \notin BadSuccess \cup BadFailure

(***************************************************************************)
(* C8. In the final report every instance is in exactly one of accepted,   *)
(* rejected, inconclusive, and the three counts sum to the number of       *)
(* instances. Fails on the code: an instance whose gold variant passed and *)
(* one of whose bad variants has no result is in none of them.             *)
(***************************************************************************)
C8_VerdictsPartitionInstances ==
    Done =>
        LET A == {x \in Inst : Accepted(x)}
            R == {x \in Inst : Rejected(x)}
            I == {x \in Inst : Inconclusive(x)}
        IN  /\ A \cap R = {} /\ A \cap I = {} /\ R \cap I = {}
            /\ A \cup R \cup I = Inst
            /\ Cardinality(A) + Cardinality(R) + Cardinality(I) = Cardinality(Inst)

\* the result the harness has for instance x in phase i is in the lists d
Kept(x, i, d) ==
    IF i = -1
    THEN /\ harness[x] = "resolved"   => x \in Get(d, "gold_successes", {})
         /\ harness[x] = "unresolved" => x \in Get(d, "gold_failures", {})
    ELSE /\ harness[x] = "resolved"   => BadId(i, x) \in Get(d, "bad_patch_failures", {})
         /\ harness[x] = "unresolved" => BadId(i, x) \in Get(d, "bad_patch_successes", {})

(***************************************************************************)
(* C9. When a phase ends while the evaluation of one instance has not      *)
(* completed (it hangs until the timeout, or the harness crashes on it),   *)
(* every other instance whose evaluation in that phase did complete with   *)
(* passed or failed keeps that result in the lists run_instances reports.  *)
(* Fails on the code: a phase is one subprocess, and its report is all or  *)
(* nothing.                                                                *)
(***************************************************************************)
C9_SiblingResultsKept ==
    [][(pc \in {"child", "blocked"} /\ pc' \in {"prepare", "done"}) =>
          \A x \in Inst :
              (/\ harness[x] \in {"resolved", "unresolved"}
               /\ \E y \in Inst \ {x} : harness[y] = "pending")
                  => Kept(x, bad_patch_index, success_dict')]_vars

(***************************************************************************)
(* C10. An instance one of whose variants has no result is enumerated in   *)
(* the final report (by its id or the id of one of its variants) and is    *)
(* not reported as rejected. Fails on the code: a phase without a report   *)
(* leaves no trace in the final report.                                    *)
(***************************************************************************)
C10_UnevaluatedInstanceEnumerated ==
    Done => \A x \in Inst :
        (\E p \in Variants(x) : VariantErrored(x, p)) => (Mentioned(x) /\ ~Rejected(x))

(***************************************************************************)
(* The results of run_with_timeout.                                        *)
(***************************************************************************)
\* run_with_timeout returned from its except clause: the command did not start
ReturnedInfra == rpc = "returned" /\ child = "none"

\* it returned after killing the child at the deadline
ReturnedTimeout == rpc = "returned" /\ child = "killed"

\* it returned after the child exited by itself
ReturnedExit == rpc = "returned" /\ child = "exited"

C6_TimeoutKillsProcessTree ==
    ReturnedTimeout =>
        /\ descendants = {}
        /\ ret = TimeoutReturn
        /\ ret[1] = None

(***************************************************************************)
(* C7. When run_with_timeout returns because the deadline passed, the      *)
(* value returned carries every stdout and stderr line read from the child *)
(* before. Fails on the code: it returns None, "Timeout exceeded", 1.      *)
(***************************************************************************)
C7_TimeoutKeepsCapturedOutput ==
    ReturnedTimeout =>
        /\ stdout_lines # <<>> => ret[1] = Some(Join(stdout_lines))
        /\ stderr_lines # <<>> => ret[2] = Join(stderr_lines)

(***************************************************************************)
(* The order of the phases and the end of the run.                         *)
(***************************************************************************)
\* the phases of the run: the gold phase and one phase per bad patch index
RunPhases == -1 .. (max_bad_patches - 1)

(***************************************************************************)
(* C11. With a positive timeout the run always eventually writes its final *)
(* report, whatever the harness subprocess of a phase does. Stated under   *)
(* FairSpec, where the orchestrator takes the steps it can take. Fails on  *)
(* the code: a harness that writes characters without a newline and then   *)
(* nothing leaves run_with_timeout in stream.readline(), where the         *)
(* deadline is not tested.                                                 *)
(***************************************************************************)
C11_RunEventuallyReports == (timeout > 0) => <>(report # None)

C16_TimeoutPerExecution ==
    [][(pc = "child" /\ ret' = TimeoutReturn) =>
          \A x \in Inst : Kept(x, bad_patch_index, success_dict')]_vars

C17_LimitsIndependent ==
    config # None =>
        \A r \in 1 .. MaxWorkers :
            \E mw \in 0 .. MaxWorkers :
                LET c == Config(mw, force_rebuild, use_apptainer, phase)
                IN  /\ c.max_workers_build_image = config[1].max_workers_build_image
                    /\ c.max_workers_run_instance = r

C18_OneWriterPerKey ==
    /\ \A i, j \in Building : image_full_name(i) = image_full_name(j) => i = j
    /\ \A i, j \in Cloning : repo_dir(i) = repo_dir(j) => i = j

\* two worker threads are building images, or two are cloning, at the same time
C18_Witness ==
    \/ Cardinality(Building) > 1
    \/ Cardinality({i \in instances : task[i] = "cloning"}) > 1

(***************************************************************************)
(* C19. Whenever the provisioning function has returned normally, the repo *)
(* directory is at the base commit, also when an earlier call failed with  *)
(* the clone made and the base commit not checked out. Fails on the code:  *)
(* ensure_repo_cloned returns an existing directory as it is.              *)
(***************************************************************************)
C19_ReturnedCheckoutAtBase == outcome = "returned" => repo = "base"

(***************************************************************************)
(* C20. When apply_patch has ended, the first command it ran is the strict *)
(* application; the relaxed one was run if and only if the strict one      *)
(* failed; it raised if and only if both failed, and succeeded otherwise.  *)
(***************************************************************************)
C20_StrictThenRelaxed ==
    cpc = "done" =>
        /\ Len(applied) \in {1, 2}
        /\ applied[1].mode = "strict"
        /\ Len(applied) = 2 <=> ~applied[1].ok
        /\ Len(applied) = 2 => applied[2].mode = "relaxed"
        /\ apply_result = "error" <=> \A k \in DOMAIN applied : ~applied[k].ok
        /\ apply_result = "ok" <=> \E k \in DOMAIN applied : applied[k].ok

\* the strict application failed and the relaxed one succeeded
C20_Witness ==
    /\ cpc = "done"
    /\ Len(applied) = 2
    /\ apply_result = "ok"

C23_EntryWithoutPatchSkipped ==
    (config # None \/ raised) =>
        /\ ~raised
        /\ \A x \in Inst :
             (/\ index_arg >= 0
              /\ index_arg < Len(predictions[x])
              /\ predictions[x][index_arg + 1] = "patch")
             => \E j \in DOMAIN patch_lines : patch_lines[j].instance = x

(***************************************************************************)
(* C24. The image build policy. Style review: no image is ever removed; a  *)
(* task that leaves the check of its image builds it exactly when           *)
(* force_rebuild is set or the image does not exist. create_image_wrapped:  *)
(* without rebuild the image is neither deleted nor created; with rebuild   *)
(* the check is followed by the delete of an image found and by the create. *)
(***************************************************************************)
C24_ImageBuildPolicy ==
    [][/\ images \subseteq images'
       /\ \A i \in instances :
            (task[i] = "image" /\ task'[i] # "image") =>
                /\ (force_rebuild \/ image_full_name(i) \notin images) => task'[i] = "building"
                /\ (~force_rebuild /\ image_full_name(i) \in images) => task'[i] = "repo"
       /\ \A i \in instances :
            (task[i] # "building" /\ task'[i] = "building") => task[i] = "image"
       /\ ~rebuild => (gc_image' = gc_image /\ gc_ops' = gc_ops)
       /\ (rebuild /\ gpc = "check" /\ gpc' # "check") =>
            gpc' = IF gc_image = "old" THEN "delete" ELSE "create"
       /\ (gpc = "delete" /\ gpc' # "delete") => gpc' = "create"
       /\ (gpc = "create" /\ gpc' # "create") => gc_ops' = Append(gc_ops, "create")
      ]_vars

\* with force_rebuild an image that exists is being built
C24_Witness ==
    /\ force_rebuild
    /\ \E i \in instances : image_full_name(i) \in images /\ task[i] = "building"

PhaseUpdate(d, i, rep) == IF i = -1 THEN GoldUpdate(d, rep) ELSE BadUpdate(d, i, rep)

(***************************************************************************)
(* C26. The report a phase returns was written by the harness subprocess   *)
(* of that phase: when the subprocess has ended, success_dict is updated   *)
(* either with no report or with the report of the instances this          *)
(* subprocess evaluated. Fails on the code: a final_report.json that       *)
(* clean_directories could not remove is read as the report of the phase.  *)
(***************************************************************************)
C26_ReportFromThisCall ==
    [][(pc \in {"child", "blocked"} /\ pc' \in {"prepare", "done"}) =>
          \/ success_dict' = PhaseUpdate(success_dict, bad_patch_index, None)
          \/ /\ \A x \in Inst : harness[x] # "pending"
             /\ success_dict' = PhaseUpdate(success_dict, bad_patch_index,
                                            Some(HarnessReport(harness)))]_vars

\* the bad variants the final report lists, on either side
ListedBad == report[1].bad_patches_results.EXPECTED_FAIL.success
             \cup report[1].bad_patches_results.EXPECTED_FAIL.failure

C28_ReportFromOwnRuns ==
    style_report # None =>
        /\ style_report[1].original = run_no
        /\ style_report[1].patched = run_no

(***************************************************************************)
(* C29. In the aider driver the run of an instance that ends in an error    *)
(* does not end the batch: the instance is left without a record and the    *)
(* loop goes on with the next one. Fails on the code: on an error           *)
(* run_aider_single returns (err, {}), and res['model_patch'] in the retry  *)
(* loop raises KeyError out of main at the first such attempt.              *)
(***************************************************************************)
C29_AiderErrorNeverAborts ==
    [][(driver = "aider" /\ errors' # errors) =>
          /\ dpc' = "loop"
          /\ todo' = Tail(todo)
          /\ all_preds' = all_preds]_vars

(***************************************************************************)
(* C30. With two driver processes at the same time on one output directory *)
(* all_preds.jsonl never holds two records of one instance id. Fails on    *)
(* the code: a process tests an id against the ids it read at its start,   *)
(* not against the file as it is when it appends.                          *)
(***************************************************************************)
C30_NoDuplicateUnderRace ==
    \A j, k \in DOMAIN preds_file :
        preds_file[j].instance_id = preds_file[k].instance_id => j = k

(***************************************************************************)
(* C31. The batch submitter never has more than 10 of its jobs in the      *)
(* cluster queue. Fails on the code: the loop waits only while squeue      *)
(* prints exactly 22 lines, which is 20 jobs under the header and not 10,  *)
(* and squeue lists the jobs of others too, so that with one of those in   *)
(* the queue the count passes from 21 lines to 23 without being 22.        *)
(***************************************************************************)
C31_AtMostTenJobsQueued == own_jobs <= JobLimit

\* the record a step of RecordResult appends (results.append(result))
AppendedResult ==
    IF Len(results') = Len(results) + 1
    THEN results'[Len(results')]
    ELSE saved'[current_mode][Len(saved'[current_mode])]

(***************************************************************************)
(* C32. In every result record the batch runner writes, 'attempts' is the  *)
(* number of times run_single was called for that task and mode. Fails on  *)
(* the code: a successful task is recorded with attempts 1 whatever the    *)
(* number of the attempt that succeeded.                                   *)
(***************************************************************************)
C32_AttemptsCountsInvocations ==
    [][bpc = "record" /\ bpc' # "record" => AppendedResult.attempts = calls]_vars

\* the (task, mode) pairs the loops of the batch are through with
ProcessedPairs ==
    IF bpc = "finished" THEN Len(modes) * BatchTasks
    ELSE (mode_idx - 1) * BatchTasks + (task_idx - 1)

(***************************************************************************)
(* C33. At every point of a batch run completed_tasks + failed_tasks is    *)
(* the number of (task, mode) pairs processed so far, completed + failed   *)
(* of a mode never exceeds the total of that mode, and at the end of the   *)
(* run completed_tasks + failed_tasks is the number of modes times the     *)
(* number of tasks.                                                        *)
(***************************************************************************)
C33_ProgressCountsPairs ==
    /\ progress.completed_tasks + progress.failed_tasks = ProcessedPairs
    /\ \A mode \in DOMAIN progress.mode_progress :
           progress.mode_progress[mode].completed + progress.mode_progress[mode].failed
               <= progress.mode_progress[mode].total
    /\ bpc = "finished" =>
           progress.completed_tasks + progress.failed_tasks = Len(modes) * BatchTasks

\* a batch of two modes is over with tasks that completed and tasks that failed
C33_Witness ==
    /\ bpc = "finished"
    /\ Len(modes) = 2
    /\ progress.completed_tasks > 0
    /\ progress.failed_tasks > 0

(***************************************************************************)
(* C34. With timeout_seconds > 0 run_with_timeout always eventually        *)
(* returns, whatever the child does; with timeout_seconds <= 0 it returns  *)
(* only when the child has exited. Stated under FairRunnerSpec, where      *)
(* run_with_timeout takes the steps it can take and the clock advances.    *)
(* Fails on the code: the deadline is tested at the top of the loop only,  *)
(* and neither stream.readline() on characters without a newline nor the   *)
(* two `for line in` loops on a stream a spawned process holds open come   *)
(* back to it.                                                             *)
(***************************************************************************)
C34_AlwaysEventuallyReturns ==
    /\ (rpc = "popen" /\ timeout_seconds > 0) ~> (rpc = "returned")
    /\ [][timeout_seconds <= 0 /\ rpc # "returned" /\ rpc' = "returned" /\ child # "none"
             => child' = "exited"]_vars

(***************************************************************************)
(* C35. For every max_workers >= 1 the limits max_workers_build_image and  *)
(* max_workers_run_instance of the config are each at least 1 and their    *)
(* sum is at most max_workers. Fails on the code for max_workers = 1: both *)
(* are max(1, 1 // 2) = 1.                                                 *)
(***************************************************************************)
C35_DerivedLimitsWithinMaxWorkers ==
    (config # None /\ max_workers >= 1) =>
        /\ config[1].max_workers_build_image >= 1
        /\ config[1].max_workers_run_instance >= 1
        /\ config[1].max_workers_build_image + config[1].max_workers_run_instance
               <= max_workers

(***************************************************************************)
(* C36. The org, repo and number create_multiswebench_config writes to the *)
(* patch file for an instance id are the org, repo and number the id was   *)
(* composed from, also when a name contains an underscore. Fails on the    *)
(* code: the repo is taken as the last piece but one of the split at every *)
(* "_", which is the end of a repository name that contains one.           *)
(***************************************************************************)
C36_InstanceIdRoundTrip == patch_data # None => patch_data[1] = item

(***************************************************************************)
(* C37. A run of the bad-patch validation appends a record to the          *)
(* bad-patch file and exits 0 exactly when the report shows the instance   *)
(* unresolved and gen_report.log holds no marker of an invalid run; in     *)
(* every other case it exits non-zero and leaves the file as it was. For   *)
(* python and for java. Fails on the code: the variable reason is assigned *)
(* only in the java branch that reads gen_report.log, so a python run of   *)
(* an unresolved instance ends in a NameError and appends nothing.         *)
(***************************************************************************)
C37_AppendsExactlyWhenUnresolvedAndValid ==
    [][LET a == val_args'[1]
       IN  IF /\ a.results_exists
              /\ a.report_exists
              /\ a.unresolved
              /\ a.log \notin InvalidMarkers
           THEN /\ exit_status' = 0
                /\ Len(bad_patch_file') = Len(bad_patch_file) + 1
                /\ bad_patch_file'[Len(bad_patch_file')].instance_id = a.instance_id
           ELSE /\ exit_status' # 0
                /\ bad_patch_file' = bad_patch_file
      ]_vars

(***************************************************************************)
(* C38. The idx values of the records appended to the bad-patch file for   *)
(* one instance are pairwise distinct. Fails on the code: idx is the       *)
(* length of the instance's bad_patches in mswebench_instances.json plus   *)
(* one, and the script appends to another file and never to that list, so  *)
(* two runs that succeed for one instance give the same idx.               *)
(***************************************************************************)
C38_IdxDistinctPerInstance ==
    \A j, k \in DOMAIN bad_patch_file :
        (/\ bad_patch_file[j].instance_id = bad_patch_file[k].instance_id
         /\ bad_patch_file[j].idx = bad_patch_file[k].idx) => j = k

====
